---- MODULE Spec2Model ----
(***************************************************************************)
(* Incident Resolution Orchestration Engine of sre-agent-system.           *)
(*                                                                         *)
(* Spec        one specialist invocation: the oracle-driven loops of the   *)
(*             Linux, Windows and GCP (GKE/GCS) specialists together with  *)
(*             the Reasoning Channel (_safe_send), and the deterministic   *)
(*             GCE sub-protocol of the GCP specialist.                     *)
(* SpecAdapter the adapter command interface (GCE, GKE, GCS executors) and *)
(*             the probes of ValidatorTools under one configuration.       *)
(* SpecValidation  one call of the validation_agent tool: the oracle loop  *)
(*             of validate_fix, then the report and the memory add.        *)
(* SpecOrchestrator  the tools the root agent dispatches for one incident. *)
(* SpecMemory  one memory store: its construction from the persisted file, *)
(*             then add_incident, feedback and search.                     *)
(* SpecShared  the memory store as two concurrent incidents share it.      *)
(* SpecDecay   one stored incident searched as it ages.                    *)
(* SpecExecutor  one command of the GCE executor: the firewall insert and  *)
(*             its polling, the instance start and the SSH retries.        *)
(* SpecRecall  memory searches and validations of the root agent across    *)
(*             months.                                                     *)
(***************************************************************************)
EXTENDS Integers, Sequences, FiniteSets, TLC

VARIABLES
    dry_run,          \* config['execution']['dry_run']
    agent,            \* the specialist that was invoked
    context,          \* the incident context handed to the specialist
    pc,               \* position of the invocation
    response,         \* latest oracle response (its parts), <<>> for None
    step,             \* loop counter of the specialist loop
    is_resolved,      \* the loop's resolution flag
    findings,         \* findings of the invocation
    actions_taken,    \* actions_taken of the invocation
    retries,          \* _safe_send: remaining budget
    backoff,          \* _safe_send: next backoff delay
    attempts,         \* send_message attempts made by the current _safe_send
    delays,           \* backoff delays slept by the current _safe_send
    sends,            \* number of _safe_send calls of the invocation
    last_error,       \* what the latest send_message attempt raised, "None" if it returned
    raised,           \* the exception that escaped, "None" if none did
    outcome,          \* the returned Outcome, NoOutcome before the return
    content,          \* what the current/last _safe_send sends to the oracle
    calls,            \* adapter execute_command calls, in order
    irregular,        \* irregular oracle/adapter events consumed so far
    probes,           \* validate_fix: the validator tools run so far, in order
    validation_result, \* validation_agent: what validate_fix returned (or the fallback)
    report,           \* validation_agent: the report returned to the orchestrator
    memory,           \* MemoryStore.memories: the entries of the memory store
    document,         \* the persisted file at MemoryStore.filepath
    is_list,          \* whether MemoryStore.memories is a list
    now,              \* datetime.now(), in seconds
    last_op,          \* the latest operation on the memory store and its result
    agent_store,      \* agent.py: the module global _memory_store
    memory_store,     \* memory_store.py: the module global _store
    instances,        \* the MemoryStore objects constructed so far
    callers,          \* the incidents that use the shared store concurrently
    dispatched,       \* root_agent: the tools dispatched for the incident, in order
    audit_log,        \* the lines of audit_log.json, in order
    executor,         \* GCEExecutorTool: the locals of the call in progress
    specialist_args   \* _call_specialist: arguments of the latest specialist call

vars == <<dry_run, agent, context, pc, response, step, is_resolved, findings,
          actions_taken, retries, backoff, attempts, delays, sends, last_error,
          raised, outcome, content, calls, irregular, probes, validation_result,
          report, memory, dispatched, specialist_args, document, is_list, now,
          last_op, agent_store, memory_store, instances, callers, audit_log,
          executor>>

\* the clock and the latest store operation
ClockVars == <<is_list, now, last_op>>

\* the store as concurrent incidents share it
SharedVars == <<agent_store, memory_store, instances, callers>>

\* the state of one specialist invocation
InvocationVars ==
    <<dry_run, agent, step, is_resolved, findings, actions_taken, retries, backoff,
      attempts, delays, outcome, content, calls, irregular>>

\* the state of Validation Closure and of the orchestrator
ClosureVars ==
    <<probes, validation_result, report, memory, dispatched, specialist_args, document,
      ClockVars, SharedVars, audit_log, executor>>

(***************************************************************************)
(* Bounds.                                                                 *)
(***************************************************************************)
\* parts in one oracle response
MaxParts == 2
\* oracle parts / adapter results of one invocation that leave the plain
\* script (one part per response: the declared tool with its plain argument,
\* answered SUCCESS, or a text); every extra part, other tool, other
\* argument and non-SUCCESS operation result counts one
MaxIrregular == 1
\* entries of one memory store
MaxEntries == 2
\* feedback calls that find their entry, on one store
MaxFeedback == 1
\* advances of the clock by thirty days
MaxMonths == 1
\* days by which an entry ages under SpecDecay
MaxAgeDays == 31
\* polls of one firewall operation that the counter keeps apart; further
\* polls are made but no longer counted
MaxPolls == 3
\* direct adapter calls explored under SpecAdapter
MaxCalls == 2
\* validator tool runs of one validate_fix call that the log keeps apart;
\* further runs are made but no longer appended
MaxProbes == 2
\* oracle calls of one validate_fix call that the counter keeps apart;
\* further calls are made but no longer counted
MaxValidationSends == 3
\* tools the root agent dispatches for one incident
MaxDispatch == 4

(***************************************************************************)
(* Values.                                                                 *)
(***************************************************************************)
None == "None"
NoResponse == <<>>
NoText == <<>>

RECURSIVE Sum(_, _)
Sum(f, n) == IF n = 0 THEN 0 ELSE f[n] + Sum(f, n - 1)

(***************************************************************************)
(* Oracle text.  A text is a sequence of words; the substring tests of the *)
(* code are decided word by word.                                          *)
(***************************************************************************)
TextFixed == <<"service", "fixed">>
TextPlain == <<"need", "more", "data">>
TextNotFixed == <<"issue", "not", "fixed">>
OracleTexts == {TextFixed, TextPlain, TextNotFixed}

\* words w with  "RESOLVED" in w
WordsContainingRESOLVED == {"RESOLVED", "UNRESOLVED"}
\* words w with  "fixed" in w.lower()
WordsContainingFixedLower == {"fixed", "Fixed", "FIXED"}

\* "RESOLVED" in text or "fixed" in text.lower()
HasMarker(text) ==
    \E i \in 1..Len(text) :
        \/ text[i] \in WordsContainingRESOLVED
        \/ text[i] \in WordsContainingFixedLower

(***************************************************************************)
(* Oracle responses: sequences of parts.                                   *)
(***************************************************************************)
FunctionCall(name, arg) == [kind |-> "function_call", name |-> name, arg |-> arg, text |-> NoText]
TextPart(t) == [kind |-> "text", name |-> "", arg |-> "", text |-> t]

Agents == {"linux_agent", "windows_agent", "gcp_agent"}

\* the tool each loop declares to the oracle
DeclaredTool(a, rtype) ==
    CASE a = "linux_agent" -> "run_linux_command"
      [] a = "windows_agent" -> "run_powershell_command"
      [] a = "gcp_agent" /\ rtype = "GKE" -> "manage_gke"
      [] OTHER -> "manage_gcs"

\* the argument of the plain script, and the other arguments explored
PlainArg(tool) ==
    CASE tool = "run_linux_command" -> "systemctl status apache2"
      [] tool = "run_powershell_command" -> "Get-Service W3SVC"
      [] tool = "manage_gke" -> "get_pod_details"
      [] OTHER -> "get_bucket_metadata"

OtherArgs(tool) ==
    CASE tool = "manage_gke" -> {"delete_pod"}
      [] tool = "manage_gcs" -> {"enable_public_access_prevention"}
      [] OTHER -> {}

PartSet(tool) ==
    {FunctionCall(tool, PlainArg(tool)), FunctionCall("other_tool", "x")}
    \cup {FunctionCall(tool, a) : a \in OtherArgs(tool)}
    \cup {TextPart(t) : t \in OracleTexts}

Responses(tool) == UNION {[1..n -> PartSet(tool)] : n \in 1..MaxParts}

PartCost(p) ==
    IF p.kind = "function_call" /\ (p.name = "other_tool" \/ p.arg # PlainArg(p.name))
    THEN 1 ELSE 0

ResponseCost(r) ==
    (Len(r) - 1) + Sum([i \in 1..Len(r) |-> PartCost(r[i])], Len(r))

\* response.text of the SDK: the text parts concatenated, None without one
RECURSIVE ResponseText(_)
ResponseText(r) ==
    IF r = <<>> THEN NoText
    ELSE (IF Head(r).kind = "text" THEN Head(r).text ELSE <<>>) \o ResponseText(Tail(r))

(***************************************************************************)
(* Adapters: execute_command of the three executors.  op is the status the *)
(* underlying operation ends with once it is actually run; a result is the *)
(* returned status and whether the underlying operation ran.               *)
(***************************************************************************)
gce_read_only_actions ==
    {"get_instance_info", "get_serial_port_output", "check_guest_metrics",
     "get_instance_by_ip", "get_disk_info"}

gce_write_actions ==
    {"restart_instance", "stop_instance", "start_instance", "reset_instance",
     "execute_ssh_command", "add_external_ip", "create_firewall_rule", "resize_disk"}

\* the names the if/elif chain of GCEExecutorTool.execute_command dispatches
GceDispatched ==
    gce_read_only_actions \cup gce_write_actions \cup {"check_firewall_rules"}

GkeDispatched ==
    {"get_cluster_info", "get_node_pools", "set_node_pool_size", "get_cluster_status",
     "get_pod_details", "get_pod_logs", "get_recent_events", "find_pod_namespace",
     "delete_pod", "restart_deployment", "scale_deployment", "list_deployments"}

gcs_read_actions == {"get_bucket_metadata", "list_bucket_contents", "get_bucket_iam"}

GcsDispatched == gcs_read_actions \cup {"enable_public_access_prevention"}

UnknownAction == "no_such_action"

Result(status, executed) == [status |-> status, executed |-> executed]

\* the underlying operation raises instead of returning a result
Raise == "raise"

CaughtNothing(op) == op
\* try: return self._<operation>(...)
\* except Exception as e: return {'status': 'ERROR', ...}
Caught(op) == IF op = Raise THEN "ERROR" ELSE op

GceExecuteCommand(dry, action, op) ==
    IF dry /\ action \in gce_write_actions THEN Result("DRY_RUN", FALSE)
    ELSE IF action \in GceDispatched THEN Result(Caught(op), TRUE)
    ELSE Result("ERROR", FALSE)

GkeExecuteCommand(dry, action, op) ==
    IF dry THEN Result("DRY_RUN", FALSE)
    ELSE IF action \in GkeDispatched THEN Result(Caught(op), TRUE)
    ELSE Result("ERROR", FALSE)

GcsExecuteCommand(dry, action, op) ==
    IF dry /\ action \notin gcs_read_actions THEN Result("DRY_RUN", FALSE)
    ELSE IF action \in GcsDispatched THEN Result(Caught(op), TRUE)
    ELSE Result("ERROR", FALSE)

ExecuteCommand(adapter, dry, action, op) ==
    CASE adapter = "gce" -> GceExecuteCommand(dry, action, op)
      [] adapter = "gke" -> GkeExecuteCommand(dry, action, op)
      [] OTHER -> GcsExecuteCommand(dry, action, op)

\* the ways the private operation behind an action can end: the status of
\* the result it returns, or Raise
OpResults(adapter, action) ==
    (CASE action = "execute_ssh_command" -> {"SUCCESS", "SSH_FAILED", "ERROR"}
       [] action = "check_guest_metrics" -> {"SKIPPED"}
       [] action = "get_instance_by_ip" -> {"SUCCESS", "FAILURE", "AMBIGUOUS", "ERROR"}
       [] OTHER -> {"SUCCESS", "ERROR"}) \cup {Raise}

\* one entry of the call log
Call(adapter, dry, action, arg, res) ==
    [adapter |-> adapter, dry_run |-> dry, action |-> action, arg |-> arg,
     status |-> res.status, executed |-> res.executed]

(***************************************************************************)
(* Incident context.  None stands for a key the context does not carry.    *)
(***************************************************************************)
gke_types == {"GKE", "POD", "DEPLOYMENT", "KUBERNETES"}
gcs_types == {"GCS", "BUCKET", "STORAGE"}

ResourceTypes == {"GCE", "GKE", "GCS"}
\* a value of external_ip that is not a string
NonStringIp == "<non-string>"
ExternalIps == {None, "None", "", " ", "34.1.2.3", NonStringIp}

Contexts ==
    [resource_type : ResourceTypes, resource_name : {None, "web-1"},
     zone : {None, "us-central1-a"}, external_ip : ExternalIps]

\* dict.get(key, default)
Get(ctx, key, default) == IF ctx[key] = None THEN default ELSE ctx[key]

\* GCPAgent.troubleshoot: the handler the resource type routes to
GcpHandler(ctx) ==
    LET resource_type == Get(ctx, "resource_type", "GCE") IN
    IF resource_type \in gke_types THEN "gke"
    ELSE IF resource_type \in gcs_types THEN "gcs"
    ELSE "gce"

(***************************************************************************)
(* One pass over the parts of a response.  acc carries the loop's locals.  *)
(***************************************************************************)
Reply(name, result) == [name |-> name, result |-> result]

Acc(a, f, c, r) ==
    [actions |-> a, findings |-> f, calls |-> c, resolved |-> r,
     function_calls_found |-> FALSE, function_responses |-> <<>>]

\* LinuxSpecialist.troubleshoot, the for loop over parts
RECURSIVE LinuxParts(_, _, _, _, _, _, _)
LinuxParts(parts, ops, i, dry, vm_name, zone, acc) ==
    IF i > Len(parts) THEN acc
    ELSE
      LET p == parts[i] IN
      IF p.kind = "function_call" THEN
         IF p.name = "run_linux_command" THEN
            LET res == GceExecuteCommand(dry, "execute_ssh_command", ops[i])
                finding ==
                    CASE res.status = "SUCCESS" -> <<"[cmd]", p.arg, "output">>
                      [] res.status = "SSH_FAILED" -> <<"CRITICAL:", "Cannot", "SSH", "to", "VM">>
                      [] OTHER -> <<"[cmd]", p.arg, "ERROR:">>
                tool_output ==
                    CASE res.status = "SUCCESS" -> "Return Code"
                      [] res.status = "SSH_FAILED" -> "SSH FAILED"
                      [] OTHER -> "Error"
            IN LinuxParts(parts, ops, i + 1, dry, vm_name, zone,
                 [acc EXCEPT
                    !.actions = Append(@, <<"Running:", p.arg>>),
                    !.findings = Append(@, finding),
                    !.calls = Append(@, Call("gce", dry, "execute_ssh_command", p.arg, res)),
                    !.resolved = IF res.status = "SSH_FAILED" THEN FALSE ELSE @,
                    !.function_calls_found = TRUE,
                    !.function_responses = Append(@, Reply(p.name, tool_output))])
         ELSE LinuxParts(parts, ops, i + 1, dry, vm_name, zone,
                 [acc EXCEPT
                    !.function_calls_found = TRUE,
                    !.function_responses = Append(@, Reply(p.name, "Unknown tool"))])
      ELSE LinuxParts(parts, ops, i + 1, dry, vm_name, zone,
                 [acc EXCEPT
                    !.findings = Append(@, p.text),
                    !.resolved = IF HasMarker(p.text) THEN TRUE ELSE @])

\* WindowsSpecialist.troubleshoot, the for loop over parts
RECURSIVE WindowsParts(_, _, _, _, _, _, _)
WindowsParts(parts, ops, i, dry, vm_name, zone, acc) ==
    IF i > Len(parts) THEN acc
    ELSE
      LET p == parts[i] IN
      IF p.kind = "function_call" THEN
         IF p.name = "run_powershell_command" THEN
            LET res == GceExecuteCommand(dry, "execute_ssh_command", ops[i])
                tool_output == IF res.status = "SUCCESS" THEN "Output" ELSE "Error"
            IN WindowsParts(parts, ops, i + 1, dry, vm_name, zone,
                 [acc EXCEPT
                    !.actions = Append(@, <<"Running PS:", p.arg>>),
                    !.findings = Append(@, <<"PowerShell", p.arg, "result:", res.status>>),
                    !.calls = Append(@, Call("gce", dry, "execute_ssh_command", p.arg, res)),
                    !.function_calls_found = TRUE,
                    !.function_responses = Append(@, Reply(p.name, tool_output))])
         ELSE WindowsParts(parts, ops, i + 1, dry, vm_name, zone,
                 [acc EXCEPT
                    !.function_calls_found = TRUE,
                    !.function_responses = Append(@, Reply(p.name, "Unknown tool"))])
      ELSE WindowsParts(parts, ops, i + 1, dry, vm_name, zone,
                 [acc EXCEPT
                    !.findings = Append(@, p.text),
                    !.resolved = IF HasMarker(p.text) THEN TRUE ELSE @])

\* GCPAgent._run_agent_loop, one iteration: only parts[0] is inspected
GcpFirstPart(parts, ops, dry, acc) ==
    LET part == parts[1] IN
    IF part.kind = "function_call" THEN
       IF part.name = "manage_gke" THEN
          LET res == GkeExecuteCommand(dry, part.arg, ops[1]) IN
          [acc EXCEPT
             !.actions = Append(@, <<"GKE:", part.arg>>),
             !.findings = Append(@, <<"GKE", part.arg, res.status>>),
             !.calls = Append(@, Call("gke", dry, part.arg, "", res)),
             !.function_calls_found = TRUE,
             !.function_responses = <<Reply(part.name, res.status)>>]
       ELSE IF part.name = "manage_gcs" THEN
          LET res == GcsExecuteCommand(dry, part.arg, ops[1]) IN
          [acc EXCEPT
             !.actions = Append(@, <<"GCS:", part.arg>>),
             !.findings = Append(@, <<"GCS", part.arg, res.status>>),
             !.calls = Append(@, Call("gcs", dry, part.arg, "", res)),
             !.function_calls_found = TRUE,
             !.function_responses = <<Reply(part.name, res.status)>>]
       ELSE
          [acc EXCEPT
             !.function_calls_found = TRUE,
             !.function_responses = <<Reply(part.name, "Error: Unknown tool")>>]
    ELSE
       [acc EXCEPT
          !.findings = Append(@, ResponseText(parts)),
          !.resolved = IF HasMarker(ResponseText(parts)) THEN TRUE ELSE @]

\* the adapter call a part leads to in the loop of agent a, <<>> if none
PartCall(a, parts, i) ==
    LET p == parts[i] IN
    IF p.kind # "function_call" THEN <<>>
    ELSE CASE a = "linux_agent" /\ p.name = "run_linux_command" -> <<"gce", "execute_ssh_command">>
           [] a = "windows_agent" /\ p.name = "run_powershell_command" -> <<"gce", "execute_ssh_command">>
           [] a = "gcp_agent" /\ i = 1 /\ p.name = "manage_gke" -> <<"gke", p.arg>>
           [] a = "gcp_agent" /\ i = 1 /\ p.name = "manage_gcs" -> <<"gcs", p.arg>>
           [] OTHER -> <<>>

\* the statuses the underlying operation of part i can end with: a choice
\* only where the adapter really runs the operation
OpChoices(a, dry, parts, i) ==
    LET c == PartCall(a, parts, i) IN
    IF c # <<>> /\ ExecuteCommand(c[1], dry, c[2], "SUCCESS").executed
    THEN OpResults(c[1], c[2]) ELSE {"SUCCESS"}

AllStatuses ==
    {"SUCCESS", "ERROR", "SSH_FAILED", "SKIPPED", "FAILURE", "AMBIGUOUS", "DRY_RUN"}

OpsCost(ops) == Sum([i \in 1..Len(ops) |-> IF ops[i] = "SUCCESS" THEN 0 ELSE 1], Len(ops))

ProcessResponse(a, parts, ops, dry, vm_name, zone, acc) ==
    CASE a = "linux_agent" -> LinuxParts(parts, ops, 1, dry, vm_name, zone, acc)
      [] a = "windows_agent" -> WindowsParts(parts, ops, 1, dry, vm_name, zone, acc)
      [] OTHER -> GcpFirstPart(parts, ops, dry, acc)

(***************************************************************************)
(* Outcome: the dict a specialist returns.  A key that is absent or None   *)
(* is NoText (solution) or None (suggested_specialist).                    *)
(***************************************************************************)
Outcome(status, f, a, solution, suggested) ==
    [status |-> status, findings |-> f, actions_taken |-> a,
     solution |-> solution, suggested_specialist |-> suggested]

NoOutcome == Outcome(None, <<>>, <<>>, NoText, None)

\* validation_result before validate_fix has returned
NoValidation == [status |-> None, validated |-> FALSE]
\* specialist_args before any specialist was called
NoArgs == [context |-> None, history |-> <<>>]

(***************************************************************************)
(* Episodic Memory Store: MemoryStore in memory_store.py.                  *)
(*                                                                         *)
(* A confidence c is held as the integer c * Scale.  Scale is chosen so    *)
(* that every product by 1.1 and by 0.5 the bounds allow is exact for a    *)
(* confidence that starts as a multiple of 0.01: each product needs one    *)
(* more decimal digit.  The comparisons then come out as they do on the    *)
(* code's floats.  Time is in seconds.                                     *)
(***************************************************************************)
RECURSIVE Power(_, _)
Power(b, n) == IF n = 0 THEN 1 ELSE b * Power(b, n - 1)

Scale == 100 * Power(10, MaxFeedback)

\* a literal of the source, given in hundredths
Hundredths(n) == n * (Scale \div 100)

Day == 86400
Month == 30 * Day

\* no time: the key last_used is absent
NoTime == -1
\* no id: an operation that takes no memory_id
NoId == -1
\* a memory_id that no entry carries
UnknownId == -2

LowerIdentity(s) == s

\* s.lower() on the symptom strings of the model
Lower(s) ==
    CASE s = "Disk Full" -> "disk full"
      [] s = "TIMEOUT" -> "timeout"
      [] OTHER -> s

\* the entry add_incident builds
Entry(id, timestamp, symptoms, diagnosis, solution, specialists, confidence) ==
    [id |-> id, timestamp |-> timestamp, symptoms |-> symptoms, diagnosis |-> diagnosis,
     solution |-> solution, specialists |-> specialists, cost_impact |-> 0,
     confidence |-> confidence, success_count |-> 1, failure_count |-> 0,
     last_used |-> NoTime]

add_incident_replacing(memories, t, symptoms, diagnosis, solution, specialists, confidence) ==
    LET entry == Entry(t, t, symptoms, diagnosis, solution, specialists, confidence) IN
    IF memories = <<>> THEN <<entry>> ELSE [memories EXCEPT ![Len(memories)] = entry]

\* add_incident up to its save: the id is "mem-" and the clock's seconds
add_incident(memories, t, symptoms, diagnosis, solution, specialists, confidence) ==
    Append(memories, Entry(t, t, symptoms, diagnosis, solution, specialists, confidence))

\* min(0.99, mem['confidence'] * 1.1)
Increased(confidence) ==
    LET raised_by_tenth == (confidence * 11) \div 10 IN
    IF raised_by_tenth < Hundredths(99) THEN raised_by_tenth ELSE Hundredths(99)

\* mem['confidence'] *= 0.5
Halved(confidence) == confidence \div 2

\* the entry the loop of feedback stops at: the first with the id, 0 for none
FirstWithId(memories, memory_id) ==
    LET matching == {i \in 1..Len(memories) : memories[i].id = memory_id} IN
    IF matching = {} THEN 0 ELSE CHOOSE i \in matching : \A j \in matching : i <= j

\* feedback up to its save
feedback(memories, memory_id, success, t) ==
    LET i == FirstWithId(memories, memory_id) IN
    IF i = 0 THEN memories
    ELSE [memories EXCEPT ![i] =
             IF success
             THEN [@ EXCEPT !.success_count = @ + 1, !.confidence = Increased(@),
                            !.last_used = t]
             ELSE [@ EXCEPT !.failure_count = @ + 1, !.confidence = Halved(@),
                            !.last_used = t]]

\* the persisted file
Document(kind, entries) == [kind |-> kind, entries |-> entries]
\* what open() can do: open the file, which json.dump then writes, or raise
SaveOutcomes == {"written", "not_opened"}
\* the outcomes left while the budget of irregular results lasts
SaveOutcomesWithin(budget) == IF budget < MaxIrregular THEN SaveOutcomes ELSE {"written"}
\* the budget after a save
Spent(budget, io) == IF io = "written" THEN budget ELSE budget + 1

save_nothing(memories, doc, io) == doc

\* save: json.dump(self.memories, f) on open(self.filepath, 'w')
save(memories, doc, io) ==
    IF io = "written" THEN Document("list", memories) ELSE doc

SaveError(io) == IF io = "written" THEN None ELSE "OSError"

\* (datetime.now() - datetime.fromisoformat(mem['timestamp'])).days
AgeDays(t, timestamp) == (t - timestamp) \div Day

\* the unit of a decay factor: one ten-thousandth
DecayScale == 10000

NoDecay(age_days) == DecayScale

\* math.exp(-age_days / 30) in units of 1 / DecayScale, rounded: a factor of
\* exp(-1) = 0.36788 for thirty days and of exp(-1/30) = 0.96722 for one
\* day; the clock of the model never runs behind a timestamp
RECURSIVE DecayFactor(_)
DecayFactor(age_days) ==
    IF age_days <= 0 THEN DecayScale
    ELSE IF age_days >= 30
         THEN (DecayFactor(age_days - 30) * 36788 + 50000) \div 100000
         ELSE (DecayFactor(age_days - 1) * 96722 + 50000) \div 100000

\* the least common denominator of the quotients overlap / len(current_set):
\* a query has one or two distinct symptoms
ScoreDenominator == 2

\* set(s.lower() for s in ...)
LowerSet(symptoms) == {Lower(symptoms[i]) : i \in 1..Len(symptoms)}

\* mem['confidence'] * decay_factor, in units of 1 / (DecayScale * Scale)
AdjustedConfidence(mem, t) == mem.confidence * DecayFactor(AgeDays(t, mem.timestamp))

\* adjusted_confidence * (overlap / len(current_set)), in units of
\* 1 / (DecayScale * Scale * ScoreDenominator)
Score(mem, current_set, t) ==
    AdjustedConfidence(mem, t) * Cardinality(current_set \cap LowerSet(mem.symptoms))
        * (ScoreDenominator \div Cardinality(current_set))

\* sorted(results, key=lambda x: x['match_score'], reverse=True)
RECURSIVE InsertByScore(_, _)
\* result goes behind the results that score as high: the sort is stable
InsertByScore(result, sorted) ==
    IF sorted = <<>> THEN <<result>>
    ELSE IF result.match_score > sorted[1].match_score THEN <<result>> \o sorted
    ELSE <<sorted[1]>> \o InsertByScore(result, Tail(sorted))

RECURSIVE SortedByScore(_)
SortedByScore(results) ==
    IF results = <<>> THEN <<>>
    ELSE InsertByScore(results[Len(results)],
                       SortedByScore(SubSeq(results, 1, Len(results) - 1)))

\* the loop of search: the entries that pass both tests, with their score
RECURSIVE Matches(_, _, _, _)
Matches(memories, current_set, min_confidence, t) ==
    IF memories = <<>> THEN <<>>
    ELSE LET mem == Head(memories)
             rest == Matches(Tail(memories), current_set, min_confidence, t)
             overlap == Cardinality(current_set \cap LowerSet(mem.symptoms))
         IN IF AdjustedConfidence(mem, t) < min_confidence * DecayScale THEN rest
            ELSE IF overlap > 0
                    /\ Score(mem, current_set, t)
                            > min_confidence * DecayScale * ScoreDenominator
                 THEN <<[entry |-> mem, match_score |-> Score(mem, current_set, t)]>> \o rest
                 ELSE rest

\* search(current_symptoms, min_confidence)
search(memories, current_symptoms, min_confidence, t) ==
    SortedByScore(Matches(memories, LowerSet(current_symptoms), min_confidence, t))

\* the latest operation on the store: its name, time, arguments and result
Op(name, at, memory_id, success, symptoms, min_confidence, results, error, size) ==
    [name |-> name, at |-> at, memory_id |-> memory_id, success |-> success, symptoms |-> symptoms,
     min_confidence |-> min_confidence, results |-> results, error |-> error,
     size |-> size]

NoOp == Op(None, 0, NoId, FALSE, <<>>, 0, <<>>, None, 0)

\* no MemoryStore object
NoStore == 0

\* the locals of a GCEExecutorTool call: its action and position, the
\* remote command, the loop index and delay of _execute_ssh_command, the
\* re-runs with sudo, the connection attempts of the command and of the
\* call, the polls and seconds waited for an operation, the returned status
ExecutorCall(action, at, ssh_command, attempt, retry_delay, reruns, attempts_made, polls,
             elapsed, status) ==
    [action |-> action, at |-> at, ssh_command |-> ssh_command, attempt |-> attempt,
     retry_delay |-> retry_delay, reruns |-> reruns, attempts_made |-> attempts_made,
     polls |-> polls, elapsed |-> elapsed, status |-> status]

\* no call in progress
NoCall == ExecutorCall(None, "idle", <<>>, 0, 0, 0, 0, 0, 0, None)

\* the store variables while no store operation has run
StoreUnused ==
    /\ document = Document("missing", <<>>)
    /\ is_list = TRUE
    /\ now = 0
    /\ last_op = NoOp
    /\ agent_store = NoStore
    /\ memory_store = NoStore
    /\ instances = <<>>
    /\ callers = <<>>

(***************************************************************************)
(* Reasoning Channel: _safe_send.                                          *)
(***************************************************************************)
InitialRetries == 3
InitialBackoff == 10
max_steps == 5

\* the messages of the exceptions chat.send_message raises
Exceptions ==
    {"429 Too Many Requests", "Resource exhausted", "429 Resource exhausted",
     "500 Internal error", "Connection reset"}

\* "429" in str(e)
Has429(e) == e \in {"429 Too Many Requests", "429 Resource exhausted"}
\* "Resource exhausted" in str(e)
HasResourceExhausted(e) == e \in {"Resource exhausted", "429 Resource exhausted"}

IsRateLimitAlways(e) == TRUE
\* "429" in str(e) or "Resource exhausted" in str(e)
IsRateLimit(e) == Has429(e) \/ HasResourceExhausted(e)

NextBackoffLinear(b) == b + 10
\* backoff *= 2
NextBackoff(b) == b * 2

Prompt == [kind |-> "prompt", parts |-> <<>>]
ToolResults(rs) == [kind |-> "function_responses", parts |-> rs]

LoopAgent == agent \in {"linux_agent", "windows_agent"} \/ GcpHandler(context) # "gce"

Tool == DeclaredTool(agent, IF GcpHandler(context) = "gke" THEN "GKE" ELSE "GCS")

\* entry of _safe_send(chat, c)
EnterSafeSend(c) ==
    /\ content' = c
    /\ retries' = InitialRetries
    /\ backoff' = InitialBackoff
    /\ attempts' = 0
    /\ last_error' = None
    /\ delays' = <<>>
    /\ sends' = sends + 1
    /\ pc' = "send"

\* troubleshoot up to the initial _safe_send (the loops have no pre-check)
StartLoop ==
    /\ UNCHANGED ClosureVars
    /\ pc = "start"
    /\ LoopAgent
    /\ EnterSafeSend(Prompt)
    /\ UNCHANGED <<dry_run, agent, context, response, step, is_resolved, findings,
                   actions_taken, raised, outcome, calls, irregular>>

\* chat.send_message returns a response
SendReplied ==
    /\ UNCHANGED ClosureVars
    /\ pc = "send"
    /\ retries > 0
    /\ \E r \in Responses(Tool) :
          /\ irregular + ResponseCost(r) <= MaxIrregular
          /\ response' = r
          /\ irregular' = irregular + ResponseCost(r)
    /\ attempts' = attempts + 1
    /\ last_error' = None
    /\ pc' = "loop"
    /\ UNCHANGED <<dry_run, agent, context, step, is_resolved, findings, actions_taken,
                   retries, backoff, delays, sends, raised, outcome, content, calls>>

\* chat.send_message raises a rate-limit signal: sleep(backoff), double, count down
SendRateLimited ==
    /\ UNCHANGED ClosureVars
    /\ pc = "send"
    /\ retries > 0
    /\ \E e \in Exceptions : IsRateLimit(e) /\ last_error' = e
    /\ attempts' = attempts + 1
    /\ delays' = Append(delays, backoff)
    /\ backoff' = NextBackoff(backoff)
    /\ retries' = retries - 1
    /\ UNCHANGED <<dry_run, agent, context, pc, response, step, is_resolved, findings,
                   actions_taken, sends, raised, outcome, content, calls, irregular>>

\* chat.send_message raises anything else: raise e
SendFatal ==
    /\ UNCHANGED ClosureVars
    /\ pc = "send"
    /\ retries > 0
    /\ \E e \in Exceptions : ~IsRateLimit(e) /\ last_error' = e /\ raised' = e
    /\ attempts' = attempts + 1
    /\ pc' = "raised"
    /\ UNCHANGED <<dry_run, agent, context, response, step, is_resolved, findings,
                   actions_taken, retries, backoff, delays, sends, outcome, content,
                   calls, irregular>>

\* the while loop of _safe_send ends: return None
SendGiveUp ==
    /\ UNCHANGED ClosureVars
    /\ pc = "send"
    /\ retries = 0
    /\ response' = NoResponse
    /\ pc' = "loop"
    /\ UNCHANGED <<dry_run, agent, context, step, is_resolved, findings, actions_taken,
                   retries, backoff, attempts, delays, sends, last_error, raised, outcome,
                   content, calls, irregular>>

(***************************************************************************)
(* Tool-Invocation Loop.                                                   *)
(***************************************************************************)
LoopConditionOffByOne == response # NoResponse /\ step <= max_steps
\* while response and step < max_steps
LoopCondition == response # NoResponse /\ step < max_steps

\* one iteration of the while loop
LoopStep ==
    /\ UNCHANGED ClosureVars
    /\ pc = "loop"
    /\ LoopCondition
    /\ \E ops \in [1..Len(response) -> AllStatuses \cup {Raise}] :
          /\ \A i \in 1..Len(response) : ops[i] \in OpChoices(agent, dry_run, response, i)
          /\ irregular + OpsCost(ops) <= MaxIrregular
          /\ irregular' = irregular + OpsCost(ops)
          /\ LET acc == ProcessResponse(agent, response, ops, dry_run,
                                        Get(context, "resource_name", "unknown"),
                                        Get(context, "zone", "unknown"),
                                        Acc(actions_taken, findings, calls, is_resolved))
             IN /\ actions_taken' = acc.actions
                /\ findings' = acc.findings
                /\ calls' = acc.calls
                /\ is_resolved' = acc.resolved
                /\ IF acc.function_calls_found
                   THEN EnterSafeSend(ToolResults(acc.function_responses))
                   ELSE /\ pc' = "return"
                        /\ UNCHANGED <<content, retries, backoff, attempts, delays, sends, last_error>>
    /\ step' = step + 1
    /\ UNCHANGED <<dry_run, agent, context, response, raised, outcome>>

\* the dict returned by LinuxSpecialist/WindowsSpecialist.troubleshoot
OsLoopOutcome(resolved, f, a, resp) ==
    Outcome(IF resolved THEN "RESOLVED" ELSE "NEEDS_HANDOFF", f, a,
            IF resolved THEN ResponseText(resp) ELSE NoText,
            IF ~resolved THEN "gcp_platform" ELSE None)

\* the dict returned by GCPAgent._run_agent_loop
GcpLoopOutcome(resolved, f, a, resp) ==
    Outcome(IF resolved THEN "RESOLVED" ELSE "NEEDS_HANDOFF", f, a,
            IF resolved /\ resp # NoResponse THEN ResponseText(resp) ELSE NoText,
            "linux_agent")

\* the return statement after the loop
Return ==
    /\ UNCHANGED ClosureVars
    /\ \/ pc = "return"
       \/ pc = "loop" /\ ~LoopCondition
    /\ IF agent = "gcp_agent"
       THEN /\ outcome' = GcpLoopOutcome(is_resolved, findings, actions_taken, response)
            /\ pc' = "done"
            /\ UNCHANGED raised
       ELSE IF is_resolved /\ response = NoResponse
       THEN \* response.text on None
            /\ raised' = "AttributeError"
            /\ pc' = "raised"
            /\ UNCHANGED outcome
       ELSE /\ outcome' = OsLoopOutcome(is_resolved, findings, actions_taken, response)
            /\ pc' = "done"
            /\ UNCHANGED raised
    /\ UNCHANGED <<dry_run, agent, context, response, step, is_resolved, findings,
                   actions_taken, retries, backoff, attempts, delays, sends, last_error,
                   content, calls, irregular>>

(***************************************************************************)
(* Deterministic GCE sub-protocol: GCPAgent._handle_gce.                   *)
(***************************************************************************)
InstanceStatuses == {"RUNNING", "STOPPED", "TERMINATED", "SUSPENDED"}

\* stdout of the curl probe, "raise" when subprocess.run raises
ProbeResults == {"200", "301", "500", "000", "", "raise"}

NoExternalIpOnlyAbsent(ip) == ip = None

\* not external_ip or external_ip == 'None' or external_ip.strip() == ''
NoExternalIp(ip) == ip = None \/ ip = "None" \/ ip = "" \/ ip = " "

ProbePassedAnyCode(http_code) == http_code # ""

\* http_code and http_code.startswith(('2', '3'))
ProbePassed(http_code) == http_code \in {"200", "301"}

Fw(f, a, c, fixed) == [findings |-> f, actions |-> a, calls |-> c, firewall_fixed |-> fixed]

\* one "if not <port>_allowed" block: create the rule, record the result
CreateRule(dry, allowed, rule, op, fw) ==
    IF allowed THEN fw
    ELSE LET create_result == GceExecuteCommand(dry, "create_firewall_rule", op) IN
         IF create_result.status = "SUCCESS"
         THEN Fw(fw.findings \o <<<<"FIREWALL BLOCKING", rule>>, <<"SUCCESS:", rule>>>>,
                 Append(fw.actions, <<"Created firewall rule:", rule>>),
                 Append(fw.calls, Call("gce", dry, "create_firewall_rule", rule, create_result)),
                 TRUE)
         ELSE Fw(fw.findings \o <<<<"FIREWALL BLOCKING", rule>>, <<"Failed to create rule", rule>>>>,
                 fw.actions,
                 Append(fw.calls, Call("gce", dry, "create_firewall_rule", rule, create_result)),
                 fw.firewall_fixed)

\* the three blocks in the order SSH, HTTP, HTTPS
CreateMissingRules(dry, ssh_allowed, http_allowed, https_allowed, ops, fw) ==
    CreateRule(dry, https_allowed, "allow-https", ops[3],
      CreateRule(dry, http_allowed, "allow-http", ops[2],
        CreateRule(dry, ssh_allowed, "allow-ssh", ops[1], fw)))

\* return final_output
GceReturn(o, c) ==
    /\ outcome' = o
    /\ calls' = c
    /\ findings' = o.findings
    /\ actions_taken' = o.actions_taken
    /\ pc' = "done"
    /\ UNCHANGED raised

StartedOutcomeToLinux(f, vm_name) ==
    Outcome("NEEDS_HANDOFF", Append(f, <<"VM has been started">>),
            <<<<"Started VM", vm_name>>>>,
            <<"Started", "VM", "Please", "re-discover">>, "linux_agent")

\* start_instance succeeded: return so that the state is re-discovered
StartedOutcome(f, vm_name) ==
    Outcome("NEEDS_HANDOFF", Append(f, <<"VM has been started">>),
            <<<<"Started VM", vm_name>>>>,
            <<"Started", "VM", "Please", "re-discover">>, "discovery_agent")

HandleGce ==
    /\ UNCHANGED ClosureVars
    /\ pc = "start"
    /\ agent = "gcp_agent"
    /\ GcpHandler(context) = "gce"
    /\ LET vm_name == Get(context, "resource_name", "")
           zone == Get(context, "zone", "")
       IN
       IF vm_name = "" \/ zone = ""
       THEN GceReturn(Outcome("NEEDS_HANDOFF", <<<<"Missing VM name or zone in context">>>>,
                              <<>>, NoText, "linux_agent"), calls)
       ELSE
       \E status_op \in OpResults("gce", "get_instance_info"), instance_status \in InstanceStatuses :
         LET status_result == GceExecuteCommand(dry_run, "get_instance_info", status_op)
             c1 == Append(calls, Call("gce", dry_run, "get_instance_info", vm_name, status_result))
             f1 == <<<<"VM Status:", instance_status>>>>
         IN
         IF status_result.status # "SUCCESS"
         THEN GceReturn(Outcome("NEEDS_HANDOFF", <<<<"Could not get VM status">>>>,
                                <<>>, NoText, None), c1)
         ELSE IF instance_status \in {"TERMINATED", "STOPPED"}
         THEN \E start_op \in OpResults("gce", "start_instance") :
                LET start_result == GceExecuteCommand(dry_run, "start_instance", start_op)
                    c2 == Append(c1, Call("gce", dry_run, "start_instance", vm_name, start_result))
                    f2 == Append(f1, <<"CRITICAL: VM is", instance_status>>)
                IN IF start_result.status = "SUCCESS"
                   THEN GceReturn(StartedOutcome(f2, vm_name), c2)
                   ELSE GceReturn(Outcome("UNRESOLVED", Append(f2, <<"Failed to start VM">>),
                                          <<>>, NoText, None), c2)
         ELSE IF instance_status = "RUNNING"
         THEN LET external_ip == context.external_ip IN
              IF external_ip = NonStringIp
              THEN \* external_ip.strip() raises inside the try: except Exception
                   GceReturn(Outcome("ERROR", Append(f1, <<"Error:", "AttributeError">>),
                                     <<>>, NoText, None), c1)
              ELSE IF NoExternalIp(external_ip)
              THEN \E ip_op \in OpResults("gce", "add_external_ip") :
                     LET ip_result == GceExecuteCommand(dry_run, "add_external_ip", ip_op)
                         c2 == Append(c1, Call("gce", dry_run, "add_external_ip", vm_name, ip_result))
                         f2 == Append(f1, <<"VM is RUNNING but has NO EXTERNAL IP">>)
                     IN IF ip_result.status = "SUCCESS"
                        THEN GceReturn(Outcome("RESOLVED", f2, <<<<"Assigned external IP">>>>,
                                               <<"Assigned", "external", "IP", "to", "VM">>,
                                               None), c2)
                        ELSE GceReturn(Outcome("UNRESOLVED", Append(f2, <<"Failed to assign IP">>),
                                               <<>>, NoText, None), c2)
              ELSE
              \E fw_op \in OpResults("gce", "check_firewall_rules"),
                 ssh_allowed \in BOOLEAN, http_allowed \in BOOLEAN, https_allowed \in BOOLEAN,
                 ops \in [1..3 -> OpResults("gce", "create_firewall_rule")],
                 http_code \in ProbeResults :
                LET fw_result == GceExecuteCommand(dry_run, "check_firewall_rules", fw_op)
                    c2 == Append(c1, Call("gce", dry_run, "check_firewall_rules", vm_name, fw_result))
                    f2 == Append(f1, <<"VM is RUNNING with external IP:", external_ip>>)
                    handoff(f) == GceReturn(Outcome("NEEDS_HANDOFF",
                                      Append(f, <<"Issue is likely at OS/application level.">>),
                                      <<>>, NoText, "linux_agent"), c2)
                IN
                IF fw_result.status = "SUCCESS"
                THEN LET fw == CreateMissingRules(dry_run, ssh_allowed, http_allowed,
                                                  https_allowed, ops, Fw(f2, <<>>, c2, FALSE))
                     IN
                     IF fw.firewall_fixed
                     THEN GceReturn(Outcome("RESOLVED", fw.findings, fw.actions,
                                            <<"Created", "firewall", "rules", "to", "allow", "access">>,
                                            "linux_agent"), fw.calls)
                     ELSE IF http_allowed /\ https_allowed
                     THEN IF ProbePassed(http_code)
                          THEN GceReturn(Outcome("RESOLVED",
                                   fw.findings \o <<<<"Firewall rules OK">>,
                                                    <<"HTTP health check PASSED!", http_code>>>>,
                                   fw.actions,
                                   <<"Web", "server", "is", "accessible", http_code>>, None),
                                   fw.calls)
                          ELSE GceReturn(Outcome("NEEDS_HANDOFF",
                                   fw.findings \o <<<<"Firewall rules OK">>,
                                                    <<"HTTP health check", http_code>>,
                                                    <<"Issue is likely at OS/application level.">>>>,
                                   fw.actions, NoText, "linux_agent"), fw.calls)
                     ELSE GceReturn(Outcome("NEEDS_HANDOFF",
                              Append(fw.findings, <<"Issue is likely at OS/application level.">>),
                              fw.actions, NoText, "linux_agent"), fw.calls)
                ELSE handoff(Append(f2, <<"Could not check firewall">>))
         ELSE \* no branch matches the status: falls to the final return
              GceReturn(Outcome("INVESTIGATING", f1, <<>>, NoText, None), c1)
    /\ UNCHANGED <<dry_run, agent, context, response, step, is_resolved, retries, backoff,
                   attempts, delays, sends, last_error, content, irregular>>

(***************************************************************************)
(* Initial states and next-state relation of one specialist invocation.    *)
(***************************************************************************)
\* the contexts a specialist is invoked with; fields a specialist never
\* reads are not varied
ContextsFor(a) ==
    IF a = "gcp_agent"
    THEN {c \in Contexts : GcpHandler(c) # "gce" => c.external_ip = None /\ c.zone # None}
    ELSE {c \in Contexts : c.resource_type = "GCE" /\ c.external_ip = "34.1.2.3" /\ c.zone # None}

Init ==
    /\ dry_run \in BOOLEAN
    /\ agent \in Agents
    /\ context \in ContextsFor(agent)
    /\ pc = "start"
    /\ response = NoResponse
    /\ step = 0
    /\ is_resolved = FALSE
    /\ findings = <<>>
    /\ actions_taken = <<>>
    /\ retries = 0
    /\ backoff = 0
    /\ attempts = 0
    /\ delays = <<>>
    /\ sends = 0
    /\ last_error = None
    /\ raised = None
    /\ outcome = NoOutcome
    /\ content = Prompt
    /\ calls = <<>>
    /\ irregular = 0
    /\ probes = <<>>
    /\ validation_result = NoValidation
    /\ report = None
    /\ memory = <<>>
    /\ StoreUnused
    /\ audit_log = <<>>
    /\ executor = NoCall
    /\ dispatched = <<>>
    /\ specialist_args = NoArgs

Next ==
    \/ StartLoop
    \/ SendReplied
    \/ SendRateLimited
    \/ SendFatal
    \/ SendGiveUp
    \/ LoopStep
    \/ Return
    \/ HandleGce

Spec == Init /\ [][Next]_vars

(***************************************************************************)
(* Adapter layer under one configuration: the executors the specialists    *)
(* build from config['execution']['dry_run'], and the executors that       *)
(* ValidatorTools builds for the probes of Validation Closure.             *)
(***************************************************************************)
\* ValidatorTools.__init__: GCEExecutorTool(project_id, dry_run=False)
ValidatorGceDryRun == FALSE
\* ValidatorTools.__init__: GKEExecutorTool(project_id, dry_run=False)
ValidatorGkeDryRun == FALSE

AdapterActions(adapter) ==
    (CASE adapter = "gce" -> GceDispatched
       [] adapter = "gke" -> GkeDispatched
       [] OTHER -> GcsDispatched) \cup {UnknownAction}

\* execute_command on the executor a specialist holds
SpecialistCall(adapter) ==
    /\ UNCHANGED ClosureVars
    /\ pc = "adapter"
    /\ Len(calls) < MaxCalls
    /\ \E action \in AdapterActions(adapter) :
         \E op \in OpResults(adapter, action) :
            calls' = Append(calls, Call(adapter, dry_run, action, "",
                                        ExecuteCommand(adapter, dry_run, action, op)))
    /\ UNCHANGED <<dry_run, agent, context, pc, response, step, is_resolved, findings,
                   actions_taken, retries, backoff, attempts, delays, sends, last_error,
                   raised, outcome, content, irregular>>

GceCall == SpecialistCall("gce")
GkeCall == SpecialistCall("gke")
GcsCall == SpecialistCall("gcs")

\* a probe of ValidatorTools: its adapter call and the status it returns
Probe(name, adapter, dry, action, op, status) ==
    /\ UNCHANGED ClosureVars
    /\ pc = "adapter"
    /\ Len(calls) < MaxCalls
    /\ calls' = Append(calls, Call(adapter, dry, action, name,
                                   ExecuteCommand(adapter, dry, action, op)))
    /\ findings' = Append(findings, <<name, status>>)
    /\ UNCHANGED <<dry_run, agent, context, pc, response, step, is_resolved,
                   actions_taken, retries, backoff, attempts, delays, sends, last_error,
                   raised, outcome, content, irregular>>

\* what the output of a probe shows
PodPhases == {"match", "mismatch", "unparsed"}

\* status returned by ValidatorTools.verify_internal_endpoint; ok: the curl
\* output has "200 OK" or "301 Moved"
verify_internal_endpoint(op, ok) ==
    LET result == GceExecuteCommand(ValidatorGceDryRun, "execute_ssh_command", op) IN
    IF result.status = "SUCCESS"
    THEN (IF ok THEN "SUCCESS" ELSE "FAILURE")
    ELSE "ERROR"

\* status returned by ValidatorTools.verify_gce_state; match: the instance
\* status equals expected_status.upper()
verify_gce_state(op, match) ==
    LET result == GceExecuteCommand(ValidatorGceDryRun, "get_instance_info", op) IN
    IF result.status # "SUCCESS" THEN "ERROR"
    ELSE IF match THEN "MATCH" ELSE "MISMATCH"

\* status returned by ValidatorTools.verify_gke_pod_status; phase: what the
\* "Status:" line of the describe output shows
verify_gke_pod_status(op, phase) ==
    LET result == GkeExecuteCommand(ValidatorGkeDryRun, "get_pod_details", op) IN
    IF result.status # "SUCCESS" THEN "ERROR"
    ELSE CASE phase = "match" -> "MATCH"
           [] phase = "mismatch" -> "MISMATCH"
           [] OTHER -> "INCONCLUSIVE"

\* ValidatorTools.verify_internal_endpoint: curl on the VM through SSH
VerifyInternalEndpoint ==
    \E op \in OpResults("gce", "execute_ssh_command"), ok \in BOOLEAN :
       Probe("verify_internal_endpoint", "gce", ValidatorGceDryRun, "execute_ssh_command", op,
             verify_internal_endpoint(op, ok))

\* ValidatorTools.verify_gce_state
VerifyGceState ==
    \E op \in OpResults("gce", "get_instance_info"), match \in BOOLEAN :
       Probe("verify_gce_state", "gce", ValidatorGceDryRun, "get_instance_info", op,
             verify_gce_state(op, match))

\* ValidatorTools.verify_gke_pod_status
VerifyGkePodStatus ==
    \E op \in OpResults("gke", "get_pod_details"), phase \in PodPhases :
       Probe("verify_gke_pod_status", "gke", ValidatorGkeDryRun, "get_pod_details", op,
             verify_gke_pod_status(op, phase))

InitAdapter ==
    /\ dry_run \in BOOLEAN
    /\ agent = "gcp_agent"
    /\ context = [resource_type |-> "GCE", resource_name |-> "web-1",
                  zone |-> "us-central1-a", external_ip |-> None]
    /\ pc = "adapter"
    /\ response = NoResponse
    /\ step = 0
    /\ is_resolved = FALSE
    /\ findings = <<>>
    /\ actions_taken = <<>>
    /\ retries = 0
    /\ backoff = 0
    /\ attempts = 0
    /\ delays = <<>>
    /\ sends = 0
    /\ last_error = None
    /\ raised = None
    /\ outcome = NoOutcome
    /\ content = Prompt
    /\ calls = <<>>
    /\ irregular = 0
    /\ probes = <<>>
    /\ validation_result = NoValidation
    /\ report = None
    /\ memory = <<>>
    /\ StoreUnused
    /\ audit_log = <<>>
    /\ executor = NoCall
    /\ dispatched = <<>>
    /\ specialist_args = NoArgs

NextAdapter ==
    \/ GceCall
    \/ GkeCall
    \/ GcsCall
    \/ VerifyInternalEndpoint
    \/ VerifyGceState
    \/ VerifyGkePodStatus

SpecAdapter == InitAdapter /\ [][NextAdapter]_vars

(***************************************************************************)
(* GCEExecutorTool: one execute_command call that waits for the cloud or   *)
(* for a remote host, step by step: the polls of _create_firewall_rule and *)
(* of _wait_for_operation, the attempts of _execute_ssh_command.           *)
(***************************************************************************)
max_retries == 3
InitialRetryDelay == 5
\* _wait_for_operation(timeout=600) and its time.sleep(2)
OperationTimeout == 600
OperationSleep == 2

\* the actions explored: one that polls without a timeout, one that waits
\* with _wait_for_operation, and the remote command
WaitingActions == {"create_firewall_rule", "start_instance", "execute_ssh_command"}

\* remote commands, as words
SshCommands == {<<"apt", "update">>, <<"sudo", "apt", "update">>}

\* "sudo " in ssh_command
HasSudo(ssh_command) ==
    \E i \in 1..(Len(ssh_command) - 1) : ssh_command[i] = "sudo"

\* f"sudo {ssh_command}"
WithSudo(ssh_command) == <<"sudo">> \o ssh_command

\* what one subprocess.run of gcloud compute ssh can end with: the remote
\* command ran and returned 0, returned another code, was not found (127);
\* gcloud could not connect; gcloud rejected its arguments; the subprocess
\* ran into its timeout of 120 s; subprocess.run raised something else
SshRuns ==
    {"exit_zero", "exit_nonzero", "not_found", "ssh_failure", "syntax_error",
     "TimeoutExpired", "Exception"}

\* what one poll of an operation can see
Polls == {"DONE", "DONE_with_error", "RUNNING", "Exception"}

ExecutorFrame ==
    UNCHANGED <<dry_run, agent, context, pc, response, step, is_resolved, findings,
                actions_taken, retries, backoff, attempts, delays, sends, last_error,
                raised, outcome, content, calls, irregular, probes, validation_result,
                report, memory, dispatched, specialist_args, document, ClockVars,
                SharedVars, audit_log>>

Returning(status) == [executor EXCEPT !.at = "returned", !.status = status]

\* execute_command: the dry-run test, then the dispatch on the action
EnterCommand ==
    /\ pc = "executor"
    /\ executor.at = "idle"
    /\ \E action \in WaitingActions, ssh_command \in SshCommands :
          IF GceExecuteCommand(dry_run, action, "SUCCESS").executed
          THEN executor' =
                 ExecutorCall(action, action,
                              IF action = "execute_ssh_command" THEN ssh_command ELSE <<>>,
                              0, InitialRetryDelay, 0, 0, 0, 0, None)
          ELSE executor' =
                 ExecutorCall(action, "returned", <<>>, 0, 0, 0, 0, 0, 0,
                              GceExecuteCommand(dry_run, action, "SUCCESS").status)
    /\ ExecutorFrame

\* _create_firewall_rule up to the insert: the rule exists already, the
\* insert raises, or the operation is returned
InsertRule ==
    /\ pc = "executor"
    /\ executor.at = "create_firewall_rule"
    /\ \E insert \in {"exists", "Exception", "operation"} :
          executor' = CASE insert = "exists" -> Returning("SUCCESS")
                        [] insert = "Exception" -> Returning("ERROR")
                        [] OTHER -> [executor EXCEPT !.at = "poll_rule"]
    /\ ExecutorFrame

\* _create_firewall_rule, one iteration of while True up to the sleep:
\* ops_client.get and the test of result.status
PollRule ==
    /\ pc = "executor"
    /\ executor.at = "poll_rule"
    /\ \E poll \in Polls :
          executor' =
             CASE poll \in {"DONE", "DONE_with_error"} ->
                     [Returning("SUCCESS") EXCEPT
                         !.polls = IF @ < MaxPolls THEN @ + 1 ELSE @]
               [] poll = "Exception" ->
                     [Returning("ERROR") EXCEPT
                         !.polls = IF @ < MaxPolls THEN @ + 1 ELSE @]
               [] OTHER -> [executor EXCEPT !.at = "sleep_rule",
                                            !.polls = IF @ < MaxPolls THEN @ + 1 ELSE @]
    /\ ExecutorFrame

\* _create_firewall_rule: time.sleep(1), then the next iteration
SleepRule ==
    /\ pc = "executor"
    /\ executor.at = "sleep_rule"
    /\ executor' = [executor EXCEPT !.at = "poll_rule"]
    /\ ExecutorFrame

\* _start_instance up to the wait: instances_client.start raises or
\* returns the operation
StartInstance ==
    /\ pc = "executor"
    /\ executor.at = "start_instance"
    /\ \E start \in {"Exception", "operation"} :
          executor' = IF start = "Exception" THEN Returning("ERROR")
                      ELSE [executor EXCEPT !.at = "wait_for_operation"]
    /\ ExecutorFrame

\* _wait_for_operation, one test of the while condition and the iteration
\* or the TimeoutError after it; _start_instance turns an exception into
\* ERROR
WaitForOperation ==
    /\ pc = "executor"
    /\ executor.at = "wait_for_operation"
    /\ IF executor.elapsed < OperationTimeout
       THEN \E poll \in Polls :
               executor' =
                  CASE poll = "DONE" -> Returning("SUCCESS")
                    [] poll \in {"DONE_with_error", "Exception"} -> Returning("ERROR")
                    [] OTHER -> [executor EXCEPT !.elapsed = @ + OperationSleep]
       ELSE executor' = Returning("ERROR")
    /\ ExecutorFrame

\* the retry of the except and SSH-failure branches: sleep, double, continue
RetryOr(status) ==
    IF executor.attempt < max_retries - 1
    THEN [executor EXCEPT !.attempt = @ + 1, !.retry_delay = @ * 2,
                          !.attempts_made = @ + 1]
    ELSE [Returning(status) EXCEPT !.attempts_made = @ + 1]

\* _execute_ssh_command, one iteration of for attempt in range(max_retries)
SshAttempt ==
    /\ pc = "executor"
    /\ executor.at = "execute_ssh_command"
    /\ \E run \in SshRuns :
          executor' =
             CASE run \in {"TimeoutExpired", "Exception"} -> RetryOr("ERROR")
               [] run = "ssh_failure" -> RetryOr("SSH_FAILED")
               [] run = "syntax_error" ->
                     [Returning("SSH_FAILED") EXCEPT !.attempts_made = @ + 1]
               [] run = "exit_nonzero" /\ ~HasSudo(executor.ssh_command) ->
                     \* return self._execute_ssh_command(..., f"sudo {ssh_command}")
                     [executor EXCEPT !.ssh_command = WithSudo(@), !.attempt = 0,
                                      !.retry_delay = InitialRetryDelay,
                                      !.reruns = @ + 1, !.attempts_made = 0]
               [] OTHER -> [Returning("SUCCESS") EXCEPT !.attempts_made = @ + 1]
    /\ ExecutorFrame

InitExecutor ==
    /\ dry_run \in BOOLEAN
    /\ agent = "gcp_agent"
    /\ context = [resource_type |-> "GCE", resource_name |-> "web-1",
                  zone |-> "us-central1-a", external_ip |-> None]
    /\ pc = "executor"
    /\ response = NoResponse
    /\ step = 0
    /\ is_resolved = FALSE
    /\ findings = <<>>
    /\ actions_taken = <<>>
    /\ retries = 0
    /\ backoff = 0
    /\ attempts = 0
    /\ delays = <<>>
    /\ sends = 0
    /\ last_error = None
    /\ raised = None
    /\ outcome = NoOutcome
    /\ content = Prompt
    /\ calls = <<>>
    /\ irregular = 0
    /\ probes = <<>>
    /\ validation_result = NoValidation
    /\ report = None
    /\ memory = <<>>
    /\ StoreUnused
    /\ audit_log = <<>>
    /\ executor = NoCall
    /\ dispatched = <<>>
    /\ specialist_args = NoArgs

NextExecutor ==
    \/ EnterCommand
    \/ InsertRule
    \/ PollRule
    \/ SleepRule
    \/ StartInstance
    \/ WaitForOperation
    \/ SshAttempt

SpecExecutor == InitExecutor /\ [][NextExecutor]_vars

\* a call in progress is not suspended forever: the interpreter goes on with it
FairExecutor == SpecExecutor /\ WF_vars(NextExecutor)

(***************************************************************************)
(* One memory store: its construction from the persisted file, then any    *)
(* sequence of add_incident, feedback and search while the clock advances. *)
(***************************************************************************)
\* _load: the entries, or the exception that leaves the try block
load(doc) ==
    CASE doc.kind = "missing" -> [memories |-> <<>>, is_list |-> TRUE, error |-> None]
      [] doc.kind = "unparseable" -> [memories |-> <<>>, is_list |-> TRUE, error |-> None]
      \* open() or f.read() raises: not a json.JSONDecodeError
      [] doc.kind = "unreadable" -> [memories |-> <<>>, is_list |-> TRUE, error |-> "OSError"]
      \* json.load returns the object {}
      [] doc.kind = "object" -> [memories |-> <<>>, is_list |-> FALSE, error |-> None]
      [] OTHER -> [memories |-> doc.entries, is_list |-> TRUE, error |-> None]

\* an entry an earlier run left in the file, thirty days ago
StoredEntry ==
    Entry(0 - Month, 0 - Month, <<"disk full">>, "diagnosis", "solution", <<"linux_agent">>,
          Hundredths(85))

\* the files a store is constructed on
InitialDocuments ==
    {Document("missing", <<>>), Document("unparseable", <<>>), Document("unreadable", <<>>),
     Document("object", <<>>), Document("list", <<StoredEntry>>)}

\* the arguments of add_incident: validation_agent adds with 0.85
AddArguments ==
    {[symptoms |-> <<"Disk Full">>, confidence |-> Hundredths(100)],
     [symptoms |-> <<"disk full", "timeout">>, confidence |-> Hundredths(85)]}

\* the arguments of search
Queries == {<<>>, <<"TIMEOUT", "disk full">>, <<"Disk Full", "disk full">>}
Thresholds == {Hundredths(50)}

\* feedback calls that found their entry
FeedbackCount(memories) ==
    Sum([i \in 1..Len(memories) |->
            memories[i].success_count - 1 + memories[i].failure_count], Len(memories))

StoreFrame ==
    UNCHANGED <<dry_run, agent, step, is_resolved, findings, actions_taken, retries, backoff,
                attempts, delays, outcome, content, calls, context, response, sends,
                last_error, probes, validation_result, report, dispatched, specialist_args,
                SharedVars, audit_log, executor>>

\* MemoryStore.__init__
MemoryStoreInit ==
    /\ pc = "mstart"
    /\ LET loaded == load(document) IN
       /\ memory' = loaded.memories
       /\ is_list' = loaded.is_list
       /\ raised' = loaded.error
       /\ pc' = IF loaded.error = None THEN "mready" ELSE "mcrashed"
    /\ UNCHANGED <<document, now, last_op, irregular>>
    /\ StoreFrame

\* MemoryStore.add_incident
AddIncident ==
    /\ pc = "mready"
    /\ Len(memory) < MaxEntries
    /\ \E arguments \in AddArguments, io \in SaveOutcomesWithin(irregular) :
         LET symptoms == arguments.symptoms
             confidence == arguments.confidence
         IN
         IF is_list
         THEN /\ irregular' = Spent(irregular, io)
              /\ memory' = add_incident(memory, now, symptoms, "diagnosis", "solution",
                                        <<"gcp_agent">>, confidence)
              /\ document' = save(memory', document, io)
              /\ last_op' = Op("add_incident", now, now, FALSE, symptoms, confidence, <<>>,
                               SaveError(io), Len(memory'))
         ELSE \* self.memories.append on an object that is not a list
              /\ last_op' = Op("add_incident", now, now, FALSE, symptoms, confidence, <<>>,
                               "AttributeError", Len(memory))
              /\ io = "written"
              /\ UNCHANGED <<memory, document, irregular>>
    /\ UNCHANGED <<pc, raised, is_list, now>>
    /\ StoreFrame

\* MemoryStore.feedback
Feedback ==
    /\ pc = "mready"
    /\ \E memory_id \in {memory[i].id : i \in 1..Len(memory)} \cup {UnknownId},
          success \in BOOLEAN, io \in SaveOutcomesWithin(irregular) :
         IF FirstWithId(memory, memory_id) # 0
         THEN /\ FeedbackCount(memory) < MaxFeedback
              /\ irregular' = Spent(irregular, io)
              /\ memory' = feedback(memory, memory_id, success, now)
              /\ document' = save(memory', document, io)
              /\ last_op' = Op("feedback", now, memory_id, success, <<>>, 0, <<>>,
                               SaveError(io), Len(memory'))
         ELSE \* no entry has the id: the loop ends without a save
              /\ io = "written"
              /\ last_op' = Op("feedback", now, memory_id, success, <<>>, 0, <<>>, None,
                               Len(memory))
              /\ UNCHANGED <<memory, document, irregular>>
    /\ UNCHANGED <<pc, raised, is_list, now>>
    /\ StoreFrame

\* MemoryStore.search
Search ==
    /\ pc = "mready"
    /\ \E current_symptoms \in Queries, min_confidence \in Thresholds :
         last_op' = Op("search", now, NoId, FALSE, current_symptoms, min_confidence,
                       search(memory, current_symptoms, min_confidence, now), None,
                       Len(memory))
    /\ UNCHANGED <<pc, raised, is_list, now, memory, document, irregular>>
    /\ StoreFrame

\* the clock advances by thirty days
Tick ==
    /\ pc = "mready"
    /\ now \div Month < MaxMonths
    /\ now' = now + Month
    /\ UNCHANGED <<pc, raised, is_list, last_op, memory, document, irregular>>
    /\ StoreFrame

InitMemory ==
    /\ dry_run = FALSE
    /\ agent = "incident_manager"
    /\ context = [resource_type |-> None, resource_name |-> None, zone |-> None,
                  external_ip |-> None]
    /\ pc = "mstart"
    /\ response = NoResponse
    /\ step = 0
    /\ is_resolved = FALSE
    /\ findings = <<>>
    /\ actions_taken = <<>>
    /\ retries = 0
    /\ backoff = 0
    /\ attempts = 0
    /\ delays = <<>>
    /\ sends = 0
    /\ last_error = None
    /\ raised = None
    /\ outcome = NoOutcome
    /\ content = Prompt
    /\ calls = <<>>
    /\ irregular = 0
    /\ probes = <<>>
    /\ validation_result = NoValidation
    /\ report = None
    /\ memory = <<>>
    /\ dispatched = <<>>
    /\ audit_log = <<>>
    /\ executor = NoCall
    /\ specialist_args = NoArgs
    /\ document \in InitialDocuments
    /\ is_list = TRUE
    /\ now = 0
    /\ last_op = NoOp
    /\ agent_store = NoStore
    /\ memory_store = NoStore
    /\ instances = <<>>
    /\ callers = <<>>

NextMemory ==
    \/ MemoryStoreInit
    \/ AddIncident
    \/ Feedback
    \/ Search
    \/ Tick

SpecMemory == InitMemory /\ [][NextMemory]_vars

(***************************************************************************)
(* The time decay of search: one stored entry that ages by half days and   *)
(* is searched for with its own symptoms, so that the overlap ratio is 1   *)
(* and the score of the result is the adjusted confidence.                 *)
(***************************************************************************)
\* the confidences of the aging entry
Confidences == {Hundredths(50), Hundredths(85), Hundredths(90), Hundredths(100)}

HalfDay == Day \div 2

\* the thresholds the aging entry is searched with
DecayThresholds == {0, Hundredths(30)}

\* search(current_symptoms, min_confidence) with the symptoms of the entry
SearchAged ==
    /\ pc = "decay"
    /\ \E min_confidence \in DecayThresholds :
         last_op' = Op("search", now, NoId, FALSE, memory[1].symptoms, min_confidence,
                       search(memory, memory[1].symptoms, min_confidence, now), None,
                       Len(memory))
    /\ UNCHANGED <<pc, raised, is_list, now, memory, document, irregular>>
    /\ StoreFrame

\* the clock advances by twelve hours
HalfDayPasses ==
    /\ pc = "decay"
    /\ now + HalfDay <= MaxAgeDays * Day
    /\ now' = now + HalfDay
    /\ UNCHANGED <<pc, raised, is_list, last_op, memory, document, irregular>>
    /\ StoreFrame

InitDecay ==
    /\ dry_run = FALSE
    /\ agent = "incident_manager"
    /\ context = [resource_type |-> None, resource_name |-> None, zone |-> None,
                  external_ip |-> None]
    /\ pc = "decay"
    /\ response = NoResponse
    /\ step = 0
    /\ is_resolved = FALSE
    /\ findings = <<>>
    /\ actions_taken = <<>>
    /\ retries = 0
    /\ backoff = 0
    /\ attempts = 0
    /\ delays = <<>>
    /\ sends = 0
    /\ last_error = None
    /\ raised = None
    /\ outcome = NoOutcome
    /\ content = Prompt
    /\ calls = <<>>
    /\ irregular = 0
    /\ probes = <<>>
    /\ validation_result = NoValidation
    /\ report = None
    /\ \E confidence \in Confidences :
          memory = add_incident(<<>>, 0, <<"disk full">>, "diagnosis", "solution",
                                <<"linux_agent">>, confidence)
    /\ dispatched = <<>>
    /\ audit_log = <<>>
    /\ executor = NoCall
    /\ specialist_args = NoArgs
    /\ document = Document("list", memory)
    /\ is_list = TRUE
    /\ now = 0
    /\ last_op = NoOp
    /\ agent_store = NoStore
    /\ memory_store = NoStore
    /\ instances = <<>>
    /\ callers = <<>>

NextDecay ==
    \/ SearchAged
    \/ HalfDayPasses

SpecDecay == InitDecay /\ [][NextDecay]_vars

(***************************************************************************)
(* The memory store as two incidents of one process share it: each calls   *)
(* _get_memory and then one mutating operation.  A step is what runs       *)
(* without a switch of threads: a test or an assignment of a module        *)
(* global, the construction of a store, list.append, the read and the      *)
(* write of the update of an entry, and a save (taken as one write of the  *)
(* whole file).  No statement of memory_store.py or agent.py takes a lock. *)
(***************************************************************************)
Incidents == {1, 2}

\* the locals of one incident: the object it constructed, the value
\* get_memory_store returned, the store it uses, its operation, and the
\* entry as its feedback has read it
Caller(at, constructed, got, store, op, symptoms, success, read) ==
    [pc |-> at, constructed |-> constructed, got |-> got, store |-> store, op |-> op,
     symptoms |-> symptoms, success |-> success, read |-> read]

SharedFrame ==
    UNCHANGED <<InvocationVars, context, pc, response, sends, last_error, raised, probes,
                validation_result, report, memory, dispatched, specialist_args, ClockVars,
                audit_log, executor>>

\* agent.py _get_memory: if _memory_store is None
GetMemory(p) ==
    /\ callers[p].pc = "get_memory"
    /\ callers' = [callers EXCEPT ![p] =
          IF agent_store = NoStore
          THEN [@ EXCEPT !.pc = "get_memory_store"]
          ELSE [@ EXCEPT !.pc = "call", !.store = agent_store]]
    /\ UNCHANGED <<agent_store, memory_store, instances, document>>
    /\ SharedFrame

\* memory_store.py get_memory_store: if _store is None
GetMemoryStore(p) ==
    /\ callers[p].pc = "get_memory_store"
    /\ callers' = [callers EXCEPT ![p].pc =
          IF memory_store = NoStore THEN "construct" ELSE "return_store"]
    /\ UNCHANGED <<agent_store, memory_store, instances, document>>
    /\ SharedFrame

\* MemoryStore(): a new object that loads the file
Construct(p) ==
    /\ callers[p].pc = "construct"
    /\ instances' = Append(instances, load(document).memories)
    /\ callers' = [callers EXCEPT ![p] =
          [@ EXCEPT !.pc = "store_global", !.constructed = Len(instances')]]
    /\ UNCHANGED <<agent_store, memory_store, document>>
    /\ SharedFrame

\* _store = <the new object>
StoreGlobal(p) ==
    /\ callers[p].pc = "store_global"
    /\ memory_store' = callers[p].constructed
    /\ callers' = [callers EXCEPT ![p].pc = "return_store"]
    /\ UNCHANGED <<agent_store, instances, document>>
    /\ SharedFrame

\* return _store
ReturnStore(p) ==
    /\ callers[p].pc = "return_store"
    /\ callers' = [callers EXCEPT ![p] = [@ EXCEPT !.pc = "assign", !.got = memory_store]]
    /\ UNCHANGED <<agent_store, memory_store, instances, document>>
    /\ SharedFrame

\* agent.py: _memory_store = get_memory_store()
AssignMemory(p) ==
    /\ callers[p].pc = "assign"
    /\ agent_store' = callers[p].got
    /\ callers' = [callers EXCEPT ![p].pc = "return_memory"]
    /\ UNCHANGED <<memory_store, instances, document>>
    /\ SharedFrame

\* agent.py: return _memory_store
ReturnMemory(p) ==
    /\ callers[p].pc = "return_memory"
    /\ callers' = [callers EXCEPT ![p] = [@ EXCEPT !.pc = "call", !.store = agent_store]]
    /\ UNCHANGED <<agent_store, memory_store, instances, document>>
    /\ SharedFrame

\* add_incident up to its save: the entry is built and appended
AppendEntry(p) ==
    /\ callers[p].pc = "call"
    /\ \E arguments \in AddArguments :
         /\ instances' = [instances EXCEPT ![callers[p].store] =
               add_incident(@, now, arguments.symptoms, "diagnosis", "solution",
                            <<"gcp_agent">>, arguments.confidence)]
         /\ callers' = [callers EXCEPT ![p] =
               [@ EXCEPT !.pc = "save", !.op = "add_incident",
                         !.symptoms = arguments.symptoms]]
    /\ UNCHANGED <<agent_store, memory_store, document>>
    /\ SharedFrame

\* feedback on the stored entry: the right-hand sides of the two updates
\* read the entry
FeedbackRead(p) ==
    /\ callers[p].pc = "call"
    /\ FirstWithId(instances[callers[p].store], StoredEntry.id) # 0
    /\ \E success \in BOOLEAN :
         LET memories == instances[callers[p].store] IN
         callers' = [callers EXCEPT ![p] =
            [@ EXCEPT !.pc = "write", !.op = "feedback", !.success = success,
                      !.read = memories[FirstWithId(memories, StoredEntry.id)]]]
    /\ UNCHANGED <<agent_store, memory_store, instances, document>>
    /\ SharedFrame

\* feedback: the entry is assigned what was computed from the values read
FeedbackWrite(p) ==
    /\ callers[p].pc = "write"
    /\ LET memories == instances[callers[p].store]
           i == FirstWithId(memories, StoredEntry.id)
           computed == feedback(<<callers[p].read>>, StoredEntry.id, callers[p].success, now)[1]
       IN instances' = [instances EXCEPT ![callers[p].store] =
             [memories EXCEPT ![i] =
                 [@ EXCEPT !.success_count = computed.success_count,
                           !.failure_count = computed.failure_count,
                           !.confidence = computed.confidence,
                           !.last_used = computed.last_used]]]
    /\ callers' = [callers EXCEPT ![p].pc = "save"]
    /\ UNCHANGED <<agent_store, memory_store, document>>
    /\ SharedFrame

\* self.save() at the end of add_incident and of feedback
SaveShared(p) ==
    /\ callers[p].pc = "save"
    /\ document' = save(instances[callers[p].store], document, "written")
    /\ callers' = [callers EXCEPT ![p].pc = "done"]
    /\ UNCHANGED <<agent_store, memory_store, instances>>
    /\ SharedFrame

InitShared ==
    /\ dry_run = FALSE
    /\ agent = "incident_manager"
    /\ context = [resource_type |-> None, resource_name |-> None, zone |-> None,
                  external_ip |-> None]
    /\ pc = "shared"
    /\ response = NoResponse
    /\ step = 0
    /\ is_resolved = FALSE
    /\ findings = <<>>
    /\ actions_taken = <<>>
    /\ retries = 0
    /\ backoff = 0
    /\ attempts = 0
    /\ delays = <<>>
    /\ sends = 0
    /\ last_error = None
    /\ raised = None
    /\ outcome = NoOutcome
    /\ content = Prompt
    /\ calls = <<>>
    /\ irregular = 0
    /\ probes = <<>>
    /\ validation_result = NoValidation
    /\ report = None
    /\ memory = <<>>
    /\ dispatched = <<>>
    /\ audit_log = <<>>
    /\ executor = NoCall
    /\ specialist_args = NoArgs
    /\ document = Document("list", <<StoredEntry>>)
    /\ is_list = TRUE
    /\ now = 0
    /\ last_op = NoOp
    /\ agent_store = NoStore
    /\ memory_store = NoStore
    /\ instances = <<>>
    /\ callers = [p \in Incidents |->
                    Caller("get_memory", NoStore, NoStore, NoStore, None, <<>>, FALSE,
                           StoredEntry)]

NextShared ==
    \E p \in Incidents :
       \/ GetMemory(p)
       \/ GetMemoryStore(p)
       \/ Construct(p)
       \/ StoreGlobal(p)
       \/ ReturnStore(p)
       \/ AssignMemory(p)
       \/ ReturnMemory(p)
       \/ AppendEntry(p)
       \/ FeedbackRead(p)
       \/ FeedbackWrite(p)
       \/ SaveShared(p)

SpecShared == InitShared /\ [][NextShared]_vars

(***************************************************************************)
(* Validation Closure: validate_fix, and the validation_agent tool of the  *)
(* orchestrator that calls it.                                             *)
(***************************************************************************)
\* the functions validate_fix declares to the oracle
ValidatorFunctions ==
    {"check_endpoint_health", "verify_gce_state", "verify_gke_pod_status",
     "verify_internal_endpoint", "check_quota", "estimate_cost"}

\* the statuses a validator function can return
ToolStatuses(name) ==
    CASE name = "check_endpoint_health" -> {"SUCCESS", "FAILURE", "ERROR"}
      [] name = "verify_gce_state" ->
            {verify_gce_state(op, match) :
                op \in OpResults("gce", "get_instance_info"), match \in BOOLEAN}
      [] name = "verify_gke_pod_status" ->
            {verify_gke_pod_status(op, phase) :
                op \in OpResults("gke", "get_pod_details"), phase \in PodPhases}
      [] name = "verify_internal_endpoint" ->
            {verify_internal_endpoint(op, ok) :
                op \in OpResults("gce", "execute_ssh_command"), ok \in BOOLEAN}
      [] name = "check_quota" -> {"SUCCESS"}
      [] name = "estimate_cost" -> {"SUCCESS"}
      [] OTHER -> {"ERROR"}

\* the calls whose argument conversion int(args.get(...)) can raise
ArgumentCanRaise(name) == name \in {"check_endpoint_health", "verify_internal_endpoint"}

\* str.upper, word by word
Upper(w) ==
    CASE w = "resolved" -> "RESOLVED"
      [] w = "Resolved" -> "RESOLVED"
      [] w = "not" -> "NOT"
      [] w = "cannot" -> "CANNOT"
      [] w = "failed" -> "FAILED"
      [] w = "looks" -> "LOOKS"
      [] w = "healthy" -> "HEALTHY"
      [] OTHER -> w

UpperText(t) == [i \in 1..Len(t) |-> Upper(t[i])]

\* the texts the oracle ends a validation with
ValidationTexts ==
    {<<"RESOLVED">>, <<"Resolved">>, <<"UNRESOLVED">>, <<"NOT", "RESOLVED">>,
     <<"FAILED">>, <<"cannot", "RESOLVED">>, <<"looks", "healthy">>}

\* "RESOLVED" in u, "NOT" in u, "FAILED" in u, "NOT RESOLVED" in u, for an
\* upper-case text u
InRESOLVED(u) == \E i \in 1..Len(u) : u[i] \in {"RESOLVED", "UNRESOLVED"}
InNOT(u) == \E i \in 1..Len(u) : u[i] \in {"NOT", "CANNOT"}
InFAILED(u) == \E i \in 1..Len(u) : u[i] = "FAILED"
InNOT_RESOLVED(u) ==
    \E i \in 1..(Len(u) - 1) : u[i] \in {"NOT", "CANNOT"} /\ u[i + 1] = "RESOLVED"

\* validate_fix: the status parsed from validation_text
ParseStatus(validation_text) ==
    LET u == UpperText(validation_text) IN
    IF InRESOLVED(u) /\ ~InNOT(u) /\ ~InFAILED(u) THEN "RESOLVED"
    ELSE IF InFAILED(u) \/ InNOT_RESOLVED(u) THEN "FAILED"
    ELSE "INCONCLUSIVE"

\* the responses of the oracle to validate_fix: one part, or no part at all
ValidationResponses ==
    {<<FunctionCall(n, "")>> : n \in ValidatorFunctions \cup {"other_tool"}}
    \cup {<<TextPart(t)>> : t \in ValidationTexts \cup {NoText}}
    \cup {<<>>}

\* hasattr(parts[0], 'function_call') and parts[0].function_call
FirstPartIsFunctionCall(r) == r # <<>> /\ r[1].kind = "function_call"

ProbeRun(name, status) == [name |-> name, status |-> status]

\* one more call of chat.send_message
CountSend == sends' = IF sends < MaxValidationSends THEN sends + 1 ELSE sends

ValidationFrame ==
    UNCHANGED <<InvocationVars, context, dispatched, specialist_args, is_list, now,
                SharedVars, audit_log, executor>>

\* validation_agent calls validate_fix, which sets up its client and tools
\* and sends the prompt
ValidateStart ==
    /\ pc = "vstart"
    /\ pc' = "vsend"
    /\ CountSend
    /\ UNCHANGED <<response, last_error, raised, probes, validation_result, report, memory, document>>
    /\ UNCHANGED last_op
    /\ ValidationFrame

\* load_config, genai.Client or ValidatorTools raises
ValidateSetupFails ==
    /\ pc = "vstart"
    /\ pc' = "vraised"
    /\ last_error' = "setup failed"
    /\ UNCHANGED <<response, sends, raised, probes, validation_result, report, memory, document>>
    /\ UNCHANGED last_op
    /\ ValidationFrame

\* chat.send_message returns
ValidateReplied ==
    /\ pc = "vsend"
    /\ response' \in ValidationResponses
    /\ pc' = "vloop"
    /\ UNCHANGED <<sends, last_error, raised, probes, validation_result, report, memory, document>>
    /\ UNCHANGED last_op
    /\ ValidationFrame

\* chat.send_message raises: validate_fix has no handler
ValidateSendFails ==
    /\ pc = "vsend"
    /\ last_error' \in Exceptions
    /\ pc' = "vraised"
    /\ UNCHANGED <<response, sends, raised, probes, validation_result, report, memory, document>>
    /\ UNCHANGED last_op
    /\ ValidationFrame

\* one iteration of the while loop: run the requested function, send its result
ValidateLoopStep ==
    /\ pc = "vloop"
    /\ FirstPartIsFunctionCall(response)
    /\ LET function_name == response[1].name IN
       \/ /\ \E status \in ToolStatuses(function_name) :
                probes' = IF Len(probes) < MaxProbes
                          THEN Append(probes, ProbeRun(function_name, status))
                          ELSE probes
          /\ CountSend
          /\ pc' = "vsend"
          /\ UNCHANGED last_error
       \/ /\ ArgumentCanRaise(function_name)
          /\ last_error' = "ValueError"
          /\ pc' = "vraised"
          /\ UNCHANGED <<probes, sends>>
    /\ UNCHANGED <<response, raised, validation_result, report, memory, document>>
    /\ UNCHANGED last_op
    /\ ValidationFrame

\* the loop ends: parse response.text and return
ValidateReturn ==
    /\ pc = "vloop"
    /\ ~FirstPartIsFunctionCall(response)
    /\ LET validation_text == ResponseText(response) IN
       IF response = <<>> \/ validation_text = NoText
       THEN \* parts[0] on an empty list, or None.upper()
            /\ last_error' = IF response = <<>> THEN "IndexError" ELSE "AttributeError"
            /\ pc' = "vraised"
            /\ UNCHANGED validation_result
       ELSE /\ validation_result' = [status |-> ParseStatus(validation_text), validated |-> FALSE]
            /\ pc' = "vreturned"
            /\ UNCHANGED last_error
    /\ UNCHANGED <<response, sends, raised, probes, report, memory, document>>
    /\ UNCHANGED last_op
    /\ ValidationFrame

\* the incident description validation_agent is called with
IncidentDescription == "Disk Full"

\* validation_agent: memory.add_incident(symptoms=[incident_description], ...,
\* confidence=0.85) inside try / except Exception
SaveToMemoryAtThreshold(incident_description, specialist_name, io) ==
    /\ memory' = add_incident(memory, now, <<incident_description>>, "Fixed by specialist",
                              "actions_taken", <<specialist_name>>, Hundredths(70))
    /\ document' = save(memory', document, io)
    /\ last_op' = Op("add_incident", now, now, FALSE, <<incident_description>>,
                     Hundredths(70), <<>>, SaveError(io), Len(memory'))

SaveToMemory(incident_description, specialist_name, io) ==
    /\ memory' = add_incident(memory, now, <<incident_description>>, "Fixed by specialist",
                              "actions_taken", <<specialist_name>>, Hundredths(85))
    /\ document' = save(memory', document, io)
    /\ last_op' = Op("add_incident", now, now, FALSE, <<incident_description>>,
                     Hundredths(85), <<>>, SaveError(io), Len(memory'))

\* except Exception: validation_result = {'status': 'RESOLVED', 'validated': True, ...}
ValidationFallback == [status |-> "RESOLVED", validated |-> TRUE]

\* validation_agent after the call of validate_fix: the fallback for a
\* validator that raised, the memory add and the report
ValidationReport ==
    /\ pc \in {"vreturned", "vraised"}
    /\ LET result == IF pc = "vraised" THEN ValidationFallback ELSE validation_result
           is_validated == result.validated \/ result.status = "RESOLVED"
       IN /\ validation_result' = result
          /\ IF is_validated
             THEN /\ \E io \in SaveOutcomes :
                        SaveToMemory(IncidentDescription, "gcp_agent", io)
                  /\ report' = "VALIDATION PASSED"
             ELSE /\ report' = "VALIDATION FAILED"
                  /\ UNCHANGED <<memory, document, last_op>>
    /\ pc' = "reported"
    /\ UNCHANGED <<response, sends, last_error, raised, probes>>
    /\ ValidationFrame

InitValidation ==
    /\ dry_run \in BOOLEAN
    /\ agent = "validation_agent"
    /\ context = [resource_type |-> "GCE", resource_name |-> "web-1",
                  zone |-> "us-central1-a", external_ip |-> "34.1.2.3"]
    /\ pc = "vstart"
    /\ response = NoResponse
    /\ step = 0
    /\ is_resolved = FALSE
    /\ findings = <<>>
    /\ actions_taken = <<>>
    /\ retries = 0
    /\ backoff = 0
    /\ attempts = 0
    /\ delays = <<>>
    /\ sends = 0
    /\ last_error = None
    /\ raised = None
    /\ outcome = NoOutcome
    /\ content = Prompt
    /\ calls = <<>>
    /\ irregular = 0
    /\ probes = <<>>
    /\ validation_result = NoValidation
    /\ report = None
    /\ memory = <<>>
    /\ StoreUnused
    /\ audit_log = <<>>
    /\ executor = NoCall
    /\ dispatched = <<>>
    /\ specialist_args = NoArgs

NextValidation ==
    \/ ValidateStart
    \/ ValidateSetupFails
    \/ ValidateReplied
    \/ ValidateSendFails
    \/ ValidateLoopStep
    \/ ValidateReturn
    \/ ValidationReport

SpecValidation == InitValidation /\ [][NextValidation]_vars

\* the tool call is run to its end: no step of it waits forever
FairValidation == SpecValidation /\ WF_vars(NextValidation)

(***************************************************************************)
(* Orchestrator: root_agent (incident_manager).  Which tool is dispatched  *)
(* next, and with which context string, is decided by the oracle; the code *)
(* of each tool is what the model fixes.  A tool is one step here: the     *)
(* specialists and validate_fix are modelled step by step above.           *)
(***************************************************************************)
\* the registry of _get_specialists
Specialists == {"linux_agent", "windows_agent", "gcp_agent"}

\* the statuses of the Outcome a specialist returns to _call_specialist
SpecialistStatuses(name) ==
    IF name = "gcp_agent"
    THEN {"RESOLVED", "NEEDS_HANDOFF", "UNRESOLVED"}
    ELSE {"RESOLVED", "NEEDS_HANDOFF"}

\* the context discovery_agent finds for the incident
DiscoveredContext ==
    [resource_type |-> "GCE", resource_name |-> "web-1",
     zone |-> "us-central1-a", external_ip |-> None]

\* a context without any key
EmptyContext ==
    [resource_type |-> None, resource_name |-> None, zone |-> None, external_ip |-> None]

\* the context strings the oracle passes to a specialist tool: the literal
\* of a context, a string only the regular expressions can read, or
\* neither; the context written is the incident's or one with the zone left out
ContextStrings(ctx) ==
    {[kind |-> k, ctx |-> c] :
        k \in {"literal", "regex", "garbage"}, c \in {ctx, [ctx EXCEPT !.zone = None]}}

\* _parse_context
ParseContext(context_str) ==
    CASE context_str.kind = "literal" -> context_str.ctx
      [] context_str.kind = "regex" ->
            \* external_ip written as None matches with an empty group: ''
            [context_str.ctx EXCEPT !.external_ip = IF @ = None THEN "" ELSE @]
      [] OTHER -> EmptyContext

\* result = specialist_fn(incident_description, context, [])
HistoryPassed(history_so_far) == <<>>

\* the string _call_specialist returns to the oracle
FormatResult(status) ==
    CASE status = "RESOLVED" -> "RESOLVED"
      [] status = "NEEDS_HANDOFF" -> "UNRESOLVED - Needs handoff"
      [] OTHER -> "UNRESOLVED"

Dispatch(tool, status, f, returned) ==
    [tool |-> tool, status |-> status, findings |-> f, returned |-> returned]

\* the findings and actions of the specialists dispatched so far
RECURSIVE Accumulated(_)
Accumulated(log) ==
    IF log = <<>> THEN <<>>
    ELSE LET d == log[Len(log)]
             earlier == Accumulated(SubSeq(log, 1, Len(log) - 1))
         IN IF d.tool \in Specialists THEN earlier \o d.findings ELSE earlier

OrchestratorFrame ==
    UNCHANGED <<dry_run, agent, step, is_resolved, findings, actions_taken, retries, backoff,
                attempts, delays, outcome, content, calls, response, sends, last_error,
                probes, validation_result, report, is_list, now, SharedVars, executor>>

\* what a tool leaves alone when it calls no specialist
NoSpecialistCalled == UNCHANGED <<pc, raised, irregular, audit_log>>

\* the tool discovery_agent
DiscoveryAgentTool ==
    /\ pc = "orchestrate"
    /\ Len(dispatched) < MaxDispatch
    /\ context' = DiscoveredContext
    /\ dispatched' = Append(dispatched, Dispatch("discovery_agent", "DISCOVERED", <<>>, "context"))
    /\ UNCHANGED <<specialist_args, memory, document, last_op>>
    /\ NoSpecialistCalled
    /\ OrchestratorFrame

\* the incident descriptions the oracle passes to search_memory: the one it
\* passes to validation_agent, the same in other letter case, or another
\* wording
IncidentDescriptions == {IncidentDescription, "disk full", "timeout"}

\* the tool search_memory: memory.search([incident_description]), then the
\* test of similar[0]['confidence']
SearchMemoryTool ==
    /\ pc = "orchestrate"
    /\ Len(dispatched) < MaxDispatch
    /\ \E incident_description \in IncidentDescriptions :
          LET similar == search(memory, <<incident_description>>, Hundredths(70), now)
              found == similar # <<>> /\ similar[1].entry.confidence > Hundredths(70)
          IN
          /\ dispatched' = Append(dispatched,
                Dispatch("search_memory", IF found THEN "FOUND" ELSE "NONE", <<>>,
                         IF found THEN "Found similar incident"
                         ELSE "No relevant past incidents found."))
          /\ last_op' = Op("search", now, NoId, FALSE, <<incident_description>>,
                           Hundredths(70), similar, None, Len(memory))
    /\ UNCHANGED <<context, specialist_args, memory, document>>
    /\ NoSpecialistCalled
    /\ OrchestratorFrame

\* the exceptions that escape troubleshoot: the raise e of _safe_send
EscapingExceptions == {e \in Exceptions : ~IsRateLimit(e)}

\* log_entry of _log_to_audit
AuditRecord(timestamp, specialist, incident, result) ==
    [timestamp |-> timestamp, specialist |-> specialist, incident |-> incident,
     result |-> result]

\* _log_to_audit: open("audit_log.json", "a") and f.write of one line; an
\* exception of open is caught and printed
log_to_audit(log, t, specialist_name, incident, result, io) ==
    IF io = "written"
    THEN Append(log, AuditRecord(t, specialist_name, incident, result))
    ELSE log

\* the tools linux_agent, windows_agent and gcp_agent: _parse_context, then
\* _call_specialist.  specialist_fn returns an Outcome, which is logged
\* and formatted, or raises, which ends _call_specialist at that line
CallSpecialist(specialist_name) ==
    /\ pc = "orchestrate"
    /\ Len(dispatched) < MaxDispatch
    /\ \E context_str \in ContextStrings(context) :
          specialist_args' = [context |-> ParseContext(context_str),
                              history |-> HistoryPassed(Accumulated(dispatched))]
    /\ \/ \E status \in SpecialistStatuses(specialist_name),
              io \in SaveOutcomesWithin(irregular) :
             LET result == [status |-> status,
                            findings |-> <<<<specialist_name, status>>>>]
             IN
             /\ audit_log' = log_to_audit(audit_log, now, specialist_name,
                                          IncidentDescription, result, io)
             /\ dispatched' = Append(dispatched,
                   Dispatch(specialist_name, status, result.findings,
                            FormatResult(status)))
             /\ irregular' = Spent(irregular, io)
             /\ UNCHANGED <<pc, raised>>
       \/ /\ irregular < MaxIrregular
          /\ \E e \in EscapingExceptions : raised' = e
          /\ dispatched' = Append(dispatched,
                Dispatch(specialist_name, "RAISED", <<>>, "exception"))
          /\ pc' = "raised"
          /\ irregular' = irregular + 1
          /\ UNCHANGED audit_log
    /\ UNCHANGED <<context, memory, document, last_op>>
    /\ OrchestratorFrame

LinuxAgentTool == CallSpecialist("linux_agent")
WindowsAgentTool == CallSpecialist("windows_agent")
GcpAgentTool == CallSpecialist("gcp_agent")

\* the tool validation_agent: the report, and the memory add of a pass
ValidationAgentTool ==
    /\ pc = "orchestrate"
    /\ Len(dispatched) < MaxDispatch
    /\ \E passed \in BOOLEAN :
          /\ dispatched' = Append(dispatched,
                Dispatch("validation_agent", IF passed THEN "PASSED" ELSE "FAILED", <<>>,
                         IF passed THEN "VALIDATION PASSED" ELSE "VALIDATION FAILED"))
          /\ IF passed
             THEN SaveToMemory(IncidentDescription, "gcp_agent", "written")
             ELSE UNCHANGED <<memory, document, last_op>>
    /\ UNCHANGED <<context, specialist_args>>
    /\ NoSpecialistCalled
    /\ OrchestratorFrame

InitOrchestrator ==
    /\ dry_run = FALSE
    /\ agent = "incident_manager"
    /\ context = EmptyContext
    /\ pc = "orchestrate"
    /\ response = NoResponse
    /\ step = 0
    /\ is_resolved = FALSE
    /\ findings = <<>>
    /\ actions_taken = <<>>
    /\ retries = 0
    /\ backoff = 0
    /\ attempts = 0
    /\ delays = <<>>
    /\ sends = 0
    /\ last_error = None
    /\ raised = None
    /\ outcome = NoOutcome
    /\ content = Prompt
    /\ calls = <<>>
    /\ irregular = 0
    /\ probes = <<>>
    /\ validation_result = NoValidation
    /\ report = None
    /\ memory = <<>>
    /\ StoreUnused
    /\ audit_log = <<>>
    /\ executor = NoCall
    /\ dispatched = <<>>
    /\ specialist_args = NoArgs

NextOrchestrator ==
    \/ DiscoveryAgentTool
    \/ SearchMemoryTool
    \/ LinuxAgentTool
    \/ WindowsAgentTool
    \/ GcpAgentTool
    \/ ValidationAgentTool

SpecOrchestrator == InitOrchestrator /\ [][NextOrchestrator]_vars

(***************************************************************************)
(* The memory tools of the root agent over the months: validation_agent    *)
(* stores fixes, search_memory recalls them, and the clock advances.       *)
(***************************************************************************)
\* the clock advances by thirty days
MonthPasses ==
    /\ pc = "orchestrate"
    /\ now \div Month < MaxMonths
    /\ now' = now + Month
    /\ UNCHANGED <<dry_run, agent, context, pc, response, step, is_resolved, findings,
                   actions_taken, retries, backoff, attempts, delays, sends, last_error,
                   raised, outcome, content, calls, irregular, probes, validation_result,
                   report, memory, dispatched, specialist_args, document, is_list,
                   last_op, SharedVars, audit_log, executor>>

NextRecall ==
    \/ SearchMemoryTool
    \/ ValidationAgentTool
    \/ MonthPasses

SpecRecall == InitOrchestrator /\ [][NextRecall]_vars

\* the scheduler runs an invocation to its end: no step of it waits forever
FairSpec == Spec /\ WF_vars(Next)

(***************************************************************************)
(* Properties.                                                             *)
(***************************************************************************)
Returned == pc = "done"
Finished == pc \in {"done", "raised"}
\* the latest _safe_send of the invocation ran out of retries and returned None
GaveUp == sends > 0 /\ retries = 0 /\ pc # "send" /\ response = NoResponse

\* C1: every returned Outcome has a solution exactly when its status is RESOLVED
C1_SolutionIffResolved ==
    Returned => ((outcome.solution # NoText) <=> (outcome.status = "RESOLVED"))

\* C2: every returned Outcome names a suggested specialist exactly when its
\* status is NEEDS_HANDOFF
C2_SuggestionIffHandoff ==
    Returned => ((outcome.suggested_specialist # None) <=> (outcome.status = "NEEDS_HANDOFF"))

\* C3: an oracle-driven loop runs at most 5 steps and makes at most 6 sends to
\* the oracle, an exception escapes it only when the channel failed (never
\* because of what the oracle answered), and the invocation always ends
C3_LoopTerminatesWithinBudget ==
    /\ [](LoopAgent =>
            /\ step <= 5
            /\ sends <= 6
            /\ (pc = "raised" => (raised \in Exceptions \/ GaveUp)))
    /\ <>Finished

C3_Witness ==
    LoopAgent /\ Returned /\ step = 5 /\ sends = 6 /\ response # NoResponse

\* C4: when the channel gives up, the specialist returns NEEDS_HANDOFF and
\* raises nothing
C4_GiveUpHandsOff ==
    (LoopAgent /\ GaveUp /\ Finished) => (Returned /\ outcome.status = "NEEDS_HANDOFF")

\* C5: when all 5 steps were consumed by responses requesting a tool, the
\* Outcome is NEEDS_HANDOFF without a solution
C5_BudgetExhaustedHandsOff ==
    (LoopAgent /\ Returned /\ step = 5 /\ sends = 6) =>
        (outcome.status = "NEEDS_HANDOFF" /\ outcome.solution = NoText)

\* C6: a channel call answered only by rate-limit signals makes the first
\* attempt and exactly 3 retries before it gives up
C6_ThreeRetriesAfterFirstAttempt ==
    (sends > 0 /\ retries = 0 /\ pc # "send" /\ raised = None) => attempts = 1 + 3

\* C7: within one channel call the backoff delays are 10, 20, 40, ...: the
\* first is 10 and each is twice the one before, in every call of an invocation
C7_BackoffDoubles ==
    /\ \A i \in 1..Len(delays) :
          /\ i = 1 => delays[i] = 10
          /\ i > 1 => delays[i] = 2 * delays[i - 1] /\ delays[i] > delays[i - 1]
    /\ (pc = "send" /\ attempts = 0) => (backoff = 10 /\ delays = <<>>)

C7_Witness == sends = 3 /\ delays = <<10, 20, 40>>

\* C8: an attempt that fails with something other than a rate-limit signal
\* ends the call at once: the error escapes, and no delay follows the attempt
C8_FatalPropagatesImmediately ==
    (last_error # None /\ ~(Has429(last_error) \/ HasResourceExhausted(last_error))) =>
        /\ pc = "raised"
        /\ raised = last_error
        /\ Len(delays) = attempts - 1

C8_Witness ==
    pc = "raised" /\ raised = "500 Internal error" /\ attempts = 2 /\ delays = <<10>>

\* the actions with side effects on a resource
StateChangingActions ==
    {"restart_instance", "stop_instance", "start_instance", "reset_instance",
     "execute_ssh_command", "add_external_ip", "create_firewall_rule", "resize_disk",
     "delete_pod", "restart_deployment", "scale_deployment"}

\* the actions that only read
ReadOnlyActions ==
    {"get_instance_info", "get_disk_info", "check_firewall_rules",
     "get_pod_details", "get_pod_logs", "get_recent_events", "list_deployments",
     "get_bucket_metadata", "get_bucket_iam", "list_bucket_contents"}

\* C9: with dry_run configured, no state-changing action is run by any
\* adapter call; each returns DRY_RUN
C9_DryRunBlocksWrites ==
    dry_run =>
        \A i \in 1..Len(calls) :
            calls[i].action \in StateChangingActions =>
                (~calls[i].executed /\ calls[i].status = "DRY_RUN")

\* C10: with dry_run configured, every read-only action is still run and
\* returns its real result
C10_DryRunAllowsReads ==
    dry_run =>
        \A i \in 1..Len(calls) :
            calls[i].action \in ReadOnlyActions =>
                (calls[i].executed /\ calls[i].status # "DRY_RUN")

\* C11: on every adapter, with dry_run set or not, a call with an action name
\* the adapter does not recognise returns status ERROR and runs nothing
C11_UnknownActionIsError ==
    \A i \in 1..Len(calls) :
        calls[i].action = UnknownAction =>
            (calls[i].status = "ERROR" /\ ~calls[i].executed)

\* the finding a specialist writes for an adapter result that is not SUCCESS
FailureFinding(a, call) ==
    CASE a = "linux_agent" ->
            IF call.status = "SSH_FAILED"
            THEN <<"CRITICAL:", "Cannot", "SSH", "to", "VM">>
            ELSE <<"[cmd]", call.arg, "ERROR:">>
      [] a = "windows_agent" -> <<"PowerShell", call.arg, "result:", call.status>>
      [] call.adapter = "gke" -> <<"GKE", call.action, call.status>>
      [] call.adapter = "gcs" -> <<"GCS", call.action, call.status>>
      [] call.action = "get_instance_info" -> <<"Could not get VM status">>
      [] call.action = "start_instance" -> <<"Failed to start VM">>
      [] call.action = "add_external_ip" -> <<"Failed to assign IP">>
      [] call.action = "check_firewall_rules" -> <<"Could not check firewall">>
      [] OTHER -> <<"Failed to create rule", call.arg>>

\* C12: every adapter call ends in a structured result whatever the
\* underlying operation did (an exception included), a result that is not
\* SUCCESS is recorded among the findings, and the step that receives an
\* adapter result goes on to the next send or returns an Outcome: it never
\* raises
C12_AdapterErrorsBecomeFindings ==
    /\ [](\A i \in 1..Len(calls) :
            /\ calls[i].status \in AllStatuses
            /\ calls[i].status # "SUCCESS" =>
                  \E j \in 1..Len(findings) : findings[j] = FailureFinding(agent, calls[i]))
    /\ [](Returned => outcome.findings = findings)
    /\ [][calls' # calls => pc' \in {"send", "done"}]_vars

C12_Witness ==
    /\ Returned
    /\ agent = "linux_agent"
    /\ \E i \in 1..Len(calls) : calls[i].status = "ERROR" /\ calls[i].executed

\* the validator functions that probe the system: endpoint health, resource
\* state, workload phase, internal endpoint
IndependentProbes ==
    {"check_endpoint_health", "verify_gce_state", "verify_gke_pod_status",
     "verify_internal_endpoint"}

\* C13: validate_fix returns RESOLVED only when it ran at least one
\* independent probe during the call
C13_ResolvedOnlyAfterProbe ==
    (pc = "vreturned" /\ validation_result.status = "RESOLVED") =>
        \E i \in 1..Len(probes) : probes[i].name \in IndependentProbes

\* C14: the validation step reports a pass or adds to the memory only when
\* validate_fix returned, and returned status RESOLVED
C14_PassOnlyWhenResolved ==
    (pc = "reported" /\ (report = "VALIDATION PASSED" \/ memory # <<>>)) =>
        (last_error = None /\ validation_result.status = "RESOLVED")

\* C15: every call of validate_fix ends, whatever the oracle answers
C15_ValidationTerminates == <>(pc \in {"vreturned", "vraised", "reported"})

\* d is a specialist dispatch that ended in NEEDS_HANDOFF
IsHandoff(d) == d.tool \in Specialists /\ d.status = "NEEDS_HANDOFF"

\* C16: after 3 consecutive specialist outcomes NEEDS_HANDOFF, the next
\* dispatch is Validation Closure
C16_ValidationAfterThreeHandoffs ==
    \A i \in 1..(Len(dispatched) - 3) :
        (IsHandoff(dispatched[i]) /\ IsHandoff(dispatched[i + 1]) /\ IsHandoff(dispatched[i + 2]))
            => dispatched[i + 3].tool = "validation_agent"

\* C17: a specialist dispatched after an earlier NEEDS_HANDOFF receives the
\* incident context unmodified and, as history, the findings and actions of
\* the earlier specialists
C17_HandoffCarriesContextAndHistory ==
    LET n == Len(dispatched) IN
    (/\ n > 1
     /\ dispatched[n].tool \in Specialists
     /\ \E i \in 1..(n - 1) : IsHandoff(dispatched[i]))
        => /\ specialist_args.context = context
           /\ specialist_args.history = Accumulated(SubSeq(dispatched, 1, n - 1))

\* the specialists the orchestrator can dispatch to
Dispatchable == {"discovery_agent", "linux_agent", "windows_agent", "gcp_agent"}

\* C18: a suggested specialist is one the orchestrator can dispatch to, and
\* not the specialist that returns the Outcome
C18_SuggestionIsDispatchable ==
    (Returned /\ outcome.suggested_specialist # None) =>
        (outcome.suggested_specialist \in Dispatchable /\ outcome.suggested_specialist # agent)

\* C19: no returned Outcome has status INVESTIGATING
C19_NeverReturnsInvestigating ==
    Returned => outcome.status # "INVESTIGATING"

\* the GCE sub-protocol found the instance stopped and its start command succeeded
StoppedAndStarted ==
    /\ Returned
    /\ agent = "gcp_agent"
    /\ GcpHandler(context) = "gce"
    /\ \E j \in 1..Len(outcome.findings) :
          outcome.findings[j] \in {<<"VM Status:", "STOPPED">>, <<"VM Status:", "TERMINATED">>}
    /\ \E i \in 1..Len(calls) :
          calls[i].action = "start_instance" /\ calls[i].status = "SUCCESS"

\* C20: when the instance is STOPPED or TERMINATED and the start succeeds,
\* exactly one start command was issued, it is in actions_taken, and the
\* Outcome is NEEDS_HANDOFF to the discovery role
C20_StoppedVmStartedOnce ==
    StoppedAndStarted =>
        /\ Cardinality({i \in 1..Len(calls) : calls[i].action = "start_instance"}) = 1
        /\ \E j \in 1..Len(outcome.actions_taken) :
              outcome.actions_taken[j] = <<"Started VM", context.resource_name>>
        /\ outcome.status = "NEEDS_HANDOFF"
        /\ outcome.suggested_specialist = "discovery_agent"

C20_Witness ==
    /\ StoppedAndStarted
    /\ <<"VM Status:", "TERMINATED">> = outcome.findings[1]
    /\ ~dry_run

\* the GCE sub-protocol ran on an instance it found in the given status
GceRanOn(instance_status) ==
    /\ Returned
    /\ agent = "gcp_agent"
    /\ GcpHandler(context) = "gce"
    /\ Len(outcome.findings) > 0
    /\ outcome.findings[1] = <<"VM Status:", instance_status>>

CallsOf(action) == {i \in 1..Len(calls) : calls[i].action = action}

\* the context carries no external address: the key is absent, or holds the
\* text None, or is empty or blank
ContextHasNoAddress == context.external_ip \in {None, "None", "", " "}

\* C21: when the instance is RUNNING and the context carries no external
\* address, exactly one assign-address command is issued and neither a
\* firewall check nor a rule creation; when that command succeeds it is in
\* actions_taken and the Outcome is RESOLVED
C21_NoAddressAssignedOnce ==
    (GceRanOn("RUNNING") /\ ContextHasNoAddress) =>
        /\ Cardinality(CallsOf("add_external_ip")) = 1
        /\ CallsOf("check_firewall_rules") = {}
        /\ CallsOf("create_firewall_rule") = {}
        /\ \A i \in CallsOf("add_external_ip") :
              calls[i].status = "SUCCESS" =>
                 /\ outcome.status = "RESOLVED"
                 /\ \E j \in 1..Len(outcome.actions_taken) :
                       outcome.actions_taken[j] = <<"Assigned external IP">>
                 /\ Len(outcome.actions_taken) = 1

C21_Witness ==
    /\ GceRanOn("RUNNING")
    /\ context.external_ip = "None"
    /\ \E i \in CallsOf("add_external_ip") : calls[i].status = "SUCCESS" /\ calls[i].executed
    /\ outcome.status = "RESOLVED"

BlockedRules == {outcome.findings[j][2] : j \in {k \in 1..Len(outcome.findings) :
                     Len(outcome.findings[k]) = 2 /\ outcome.findings[k][1] = "FIREWALL BLOCKING"}}

\* the firewall check found ports 22 and 80 blocked and port 443 open, and
\* both permit rules were created
SshAndHttpBlockedAndFixed ==
    /\ GceRanOn("RUNNING")
    /\ context.external_ip = "34.1.2.3"
    /\ BlockedRules = {"allow-ssh", "allow-http"}
    /\ \A i \in CallsOf("create_firewall_rule") : calls[i].status = "SUCCESS"

\* C22: when the instance is RUNNING with an external address, ports 22 and
\* 80 are blocked and port 443 is open, exactly two permit rules are created,
\* the Outcome is RESOLVED and suggested_specialist is unset
C22_BlockedPortsResolvedWithoutSuggestion ==
    SshAndHttpBlockedAndFixed =>
        /\ Cardinality(CallsOf("create_firewall_rule")) = 2
        /\ {calls[i].arg : i \in CallsOf("create_firewall_rule")} = {"allow-ssh", "allow-http"}
        /\ outcome.status = "RESOLVED"
        /\ outcome.suggested_specialist = None

\* the firewall check succeeded and reported every required port open
AllPortsOpen ==
    /\ GceRanOn("RUNNING")
    /\ context.external_ip = "34.1.2.3"
    /\ \E i \in CallsOf("check_firewall_rules") : calls[i].status = "SUCCESS"
    /\ BlockedRules = {}

\* what the reachability probe returned, read from the finding that records it
ProbeReturned(http_code) ==
    \E j \in 1..Len(outcome.findings) :
        outcome.findings[j] \in {<<"HTTP health check PASSED!", http_code>>,
                                 <<"HTTP health check", http_code>>}

\* C23: when the instance is RUNNING with an external address and every
\* required port is open, no rule is created; a 2xx probe result gives
\* RESOLVED with a solution that says the server is accessible, a 5xx result
\* or a probe that times out gives NEEDS_HANDOFF to the OS-level specialist
C23_OutcomeFollowsProbe ==
    AllPortsOpen =>
        /\ CallsOf("create_firewall_rule") = {}
        /\ outcome.actions_taken = <<>>
        /\ \E http_code \in ProbeResults : ProbeReturned(http_code)
        /\ ProbeReturned("200") =>
              /\ outcome.status = "RESOLVED"
              /\ SubSeq(outcome.solution, 1, 4) = <<"Web", "server", "is", "accessible">>
        /\ (ProbeReturned("500") \/ ProbeReturned("000") \/ ProbeReturned("raise")) =>
              /\ outcome.status = "NEEDS_HANDOFF"
              /\ outcome.suggested_specialist = "linux_agent"

C23_Witness ==
    /\ AllPortsOpen
    /\ ProbeReturned("200")
    /\ outcome.status = "RESOLVED"

C23_WitnessTimeout ==
    /\ AllPortsOpen
    /\ ProbeReturned("raise")
    /\ outcome.status = "NEEDS_HANDOFF"

(***************************************************************************)
(* Episodic Memory Store.                                                  *)
(***************************************************************************)
\* the store was constructed
StoreReady == pc = "mready"

\* entry i of the store keeps its identity from this state to the next
KeptAt(i) ==
    /\ i <= Len(memory')
    /\ memory'[i].id = memory[i].id
    /\ memory'[i].symptoms = memory[i].symptoms
    /\ memory'[i].diagnosis = memory[i].diagnosis
    /\ memory'[i].solution = memory[i].solution

\* the step is an add_incident that appended its entry
AddStep ==
    /\ StoreReady
    /\ last_op'.name = "add_incident"
    /\ last_op'.error # "AttributeError"
    /\ last_op' # last_op

\* C24: the store is append-only: no step of add_incident, feedback or search
\* removes an entry or changes the id, symptoms, diagnosis or solution of
\* one, and an add_incident leaves one entry more, placed behind the others
C24_AppendOnly ==
    [][/\ StoreReady => \A i \in 1..Len(memory) : KeptAt(i)
       /\ AddStep => /\ Len(memory') = Len(memory) + 1
                     /\ memory'[Len(memory')].symptoms = last_op'.symptoms]_vars

\* an entry was added behind a stored one that a feedback has changed, and
\* the store was searched
C24_Witness ==
    /\ StoreReady
    /\ Len(memory) = 2
    /\ memory[1].id = StoredEntry.id
    /\ memory[1].failure_count = 1
    /\ memory[2].symptoms = <<"Disk Full">>
    /\ last_op.name = "search"

\* C25: a feedback with success=True leaves the confidence of its entry
\* strictly greater and at most 0.99; a feedback with success=False leaves it
\* strictly smaller and at most half of what it was
C25_FeedbackMovesConfidence ==
    [][StoreReady =>
         \A i \in 1..Len(memory) :
            /\ memory'[i].success_count = memory[i].success_count + 1 =>
                  /\ memory'[i].confidence > memory[i].confidence
                  /\ memory'[i].confidence <= Hundredths(99)
            /\ memory'[i].failure_count = memory[i].failure_count + 1 =>
                  /\ memory'[i].confidence < memory[i].confidence
                  /\ 2 * memory'[i].confidence <= memory[i].confidence]_vars

\* the spellings of one symptom
CaseClasses == {{"disk full", "Disk Full"}, {"timeout", "TIMEOUT"}}

\* the symptoms of a list, without regard to case
Folded(symptoms) == {c \in CaseClasses : \E i \in 1..Len(symptoms) : symptoms[i] \in c}

\* the confidence of an entry after decay by its age at time t, in units of
\* 1 / (DecayScale * Scale)
Decayed(mem, t) == mem.confidence * DecayFactor((t - mem.timestamp) \div Day)

\* decayed confidence * overlap / |query symptoms| > threshold, with both
\* sides multiplied by |query symptoms|
ScoresAbove(mem, query, threshold, t) ==
    Decayed(mem, t) * Cardinality(Folded(query) \cap Folded(mem.symptoms))
        > threshold * DecayScale * Cardinality(Folded(query))

\* the entries search has to return
Expected(query, threshold, t) ==
    {i \in 1..Len(memory) :
        /\ Decayed(memory[i], t) >= threshold * DecayScale
        /\ Folded(query) \cap Folded(memory[i].symptoms) # {}
        /\ ScoresAbove(memory[i], query, threshold, t)}

\* how often an entry occurs in a sequence of entries
Occurrences(entries, mem) == Cardinality({i \in 1..Len(entries) : entries[i] = mem})

Searched == StoreReady /\ last_op.name = "search"

\* C26: search returns exactly the entries whose decayed confidence is not
\* below the threshold, that share a symptom with the query without regard
\* to case, and whose score is above the threshold; each with its score, in
\* the order of non-increasing score; the search leaves the store and the
\* persisted file as they are
C26_SearchReturnsRankedMatches ==
    /\ [](Searched =>
            LET results == last_op.results
                returned == [k \in 1..Len(results) |-> results[k].entry]
                query == Folded(last_op.symptoms)
                expected == Expected(last_op.symptoms, last_op.min_confidence, last_op.at)
            IN /\ \A i \in 1..Len(memory) :
                     Occurrences(returned, memory[i]) =
                        Cardinality({j \in expected : memory[j] = memory[i]})
               /\ Len(results) = Cardinality(expected)
               /\ \A k \in 1..Len(results) :
                     results[k].match_score * Cardinality(query)
                        = Decayed(results[k].entry, last_op.at) * ScoreDenominator
                            * Cardinality(query \cap Folded(results[k].entry.symptoms))
               /\ \A k \in 1..(Len(results) - 1) :
                     results[k].match_score >= results[k + 1].match_score)
    /\ [][last_op'.name = "search" /\ last_op' # last_op =>
             memory' = memory /\ document' = document]_vars

\* a search returned two entries in the order of their scores, which is not
\* the order of the store
C26_Witness ==
    /\ Searched
    /\ Len(last_op.results) = 2
    /\ last_op.results[1].match_score > last_op.results[2].match_score
    /\ last_op.results[1].entry = memory[2]

\* a search left out an entry that shares a symptom with the query, for its
\* score
C26_WitnessLeftOut ==
    /\ Searched
    /\ last_op.symptoms = <<"TIMEOUT", "disk full">>
    /\ Len(memory) = 2
    /\ Len(last_op.results) = 1
    /\ memory[1].confidence = Hundredths(100)
    /\ memory[1].timestamp = now

\* the latest operation was an add_incident or a feedback that changed the
\* store and returned
MutationCompleted ==
    /\ StoreReady
    /\ last_op.error = None
    /\ \/ last_op.name = "add_incident"
       \/ last_op.name = "feedback" /\ FirstWithId(memory, last_op.memory_id) # 0

\* C27: after every add_incident or feedback that changed the store and
\* returned, the persisted file holds the whole list of entries as it is in
\* memory
C27_MutationsArePersisted ==
    MutationCompleted => document = Document("list", memory)

\* a feedback returned after an earlier save had failed
C27_Witness ==
    /\ MutationCompleted
    /\ last_op.name = "feedback"
    /\ irregular > 0
    /\ Len(memory) = 2
    /\ document.entries = memory

\* C29: constructing the store never fails, whatever the file holds, and on
\* the store it yields add_incident, feedback and search work: none of them
\* fails on the loaded value
C29_LoadNeverFails ==
    /\ pc # "mcrashed"
    /\ StoreReady => /\ is_list
                     /\ last_op.error \in {None, "OSError"}

\* both incidents have returned from their operation
BothDone == pc = "shared" /\ \A p \in Incidents : callers[p].pc = "done"

\* the operation of an incident, applied to a list of entries as one step
Applied(memories, c) ==
    IF c.op = "add_incident"
    THEN add_incident(memories, now, c.symptoms, "diagnosis", "solution", <<"gcp_agent">>,
                      (CHOOSE a \in AddArguments : a.symptoms = c.symptoms).confidence)
    ELSE feedback(memories, StoredEntry.id, c.success, now)

\* what the two operations leave when one runs after the other
Serialized ==
    {Applied(Applied(<<StoredEntry>>, callers[1]), callers[2]),
     Applied(Applied(<<StoredEntry>>, callers[2]), callers[1])}

\* C28: when two incidents have each completed a mutation of the shared
\* store, both used the same store object, and its entries and the persisted
\* file are what the two operations leave when they run one after the other:
\* no entry and no confidence update is lost
C28_ConcurrentMutationsSerialized ==
    BothDone =>
        /\ callers[1].store = callers[2].store
        /\ instances[callers[1].store] \in Serialized
        /\ document = Document("list", instances[callers[1].store])

\* a search_memory of this incident found an entry to reuse
ReusedMemory ==
    \E i \in 1..Len(dispatched) :
        dispatched[i].tool = "search_memory" /\ dispatched[i].status = "FOUND"

\* the step is a validation_agent call that reports a failed validation
ValidationFails ==
    /\ pc = "orchestrate"
    /\ Len(dispatched') = Len(dispatched) + 1
    /\ dispatched'[Len(dispatched')].tool = "validation_agent"
    /\ dispatched'[Len(dispatched')].status = "FAILED"

\* C30: when validation fails for an incident that reused a memory entry, a
\* feedback with success=False is applied: an entry of the store has a
\* smaller confidence and one failure more after the failed validation
C30_FailedValidationLowersConfidence ==
    [][(ValidationFails /\ ReusedMemory) =>
          \E i \in 1..Len(memory) :
             /\ memory'[i].confidence < memory[i].confidence
             /\ memory'[i].failure_count = memory[i].failure_count + 1]_vars

\* the step invokes a specialist through one of the tools linux_agent,
\* windows_agent and gcp_agent
SpecialistInvoked ==
    /\ Len(dispatched') = Len(dispatched) + 1
    /\ dispatched'[Len(dispatched')].tool \in Specialists

\* the records of the log before the step are the first records after it
LogKept ==
    /\ Len(audit_log') >= Len(audit_log)
    /\ SubSeq(audit_log', 1, Len(audit_log)) = audit_log

\* C31: every invocation of a specialist through the orchestrator appends
\* exactly one record {timestamp, specialist, incident, result} to the audit
\* log, whatever the outcome of the invocation, also one that ends in a
\* failure; the records already in the log are never modified or removed
C31_EveryInvocationIsAudited ==
    [][/\ LogKept
       /\ SpecialistInvoked =>
             /\ Len(audit_log') = Len(audit_log) + 1
             /\ audit_log'[Len(audit_log')].specialist = dispatched'[Len(dispatched')].tool
             /\ audit_log'[Len(audit_log')].incident = IncidentDescription
       /\ ~SpecialistInvoked => audit_log' = audit_log]_vars

\* (29/30)^d in units of 1 / DecayScale, rounded down: not above exp(-d/30)
RECURSIVE ExpLowerBound(_)
ExpLowerBound(d) ==
    IF d = 0 THEN DecayScale ELSE (ExpLowerBound(d - 1) * 29) \div 30

\* (30/31)^d in units of 1 / DecayScale, rounded up: not below exp(-d/30)
RECURSIVE ExpUpperBound(_)
ExpUpperBound(d) ==
    IF d = 0 THEN DecayScale ELSE (ExpUpperBound(d - 1) * 30 + 30) \div 31

\* a confidence given in thousandths
Thousandths(n) == n * (Scale \div 1000)

\* the aging entry was searched for and found
FoundAged == pc = "decay" /\ last_op.name = "search" /\ last_op.results # <<>>

\* the adjusted confidence of the first result: its score, the overlap ratio
\* being 1; in units of 1 / (DecayScale * Scale)
AdjustedOfResult == last_op.results[1].match_score \div ScoreDenominator

\* the age in whole days of the first result at the time of the search
AgeOfResult == (last_op.at - last_op.results[1].entry.timestamp) \div Day

\* C32: the adjusted confidence used by search is confidence *
\* exp(-age_in_days / 30), the age in whole days: it lies between confidence
\* * (29/30)^age and confidence * (30/31)^age; for confidence 0.9 it is 0.33
\* to two decimals at an age of 30 days and 0.9 at an age of 0 days
C32_AdjustedConfidenceDecays ==
    FoundAged =>
        LET confidence == last_op.results[1].entry.confidence
        IN /\ AdjustedOfResult >= confidence * ExpLowerBound(AgeOfResult)
           /\ AdjustedOfResult <= confidence * ExpUpperBound(AgeOfResult)
           /\ AgeOfResult = 0 => AdjustedOfResult = confidence * DecayScale
           /\ (AgeOfResult = 30 /\ confidence = Hundredths(90)) =>
                 /\ AdjustedOfResult > Thousandths(325) * DecayScale
                 /\ AdjustedOfResult < Thousandths(335) * DecayScale

\* an entry of confidence 0.9 was found at an age of 30 days
C32_Witness ==
    /\ FoundAged
    /\ AgeOfResult = 30
    /\ last_op.results[1].entry.confidence = Hundredths(90)

\* an entry of confidence 0.9 was found on the day it was added, hours later
C32_WitnessFresh ==
    /\ FoundAged
    /\ AgeOfResult = 0
    /\ last_op.at > last_op.results[1].entry.timestamp
    /\ last_op.results[1].entry.confidence = Hundredths(90)

\* a remote command of the invocation reported a connection failure
SshFailed == \E i \in 1..Len(calls) : calls[i].status = "SSH_FAILED"

\* the names under which the code refers to the GCP specialist
GcpSpecialistNames == {"gcp_agent", "gcp_platform"}

\* C33: once a remote command reports SSH_FAILED during the loop of an
\* OS-level specialist, the Outcome of the call is NEEDS_HANDOFF toward the
\* GCP specialist, whatever the oracle answers afterwards; it is never
\* RESOLVED
C33_ConnectionFailureHandsOff ==
    (Returned /\ agent \in {"linux_agent", "windows_agent"} /\ SshFailed) =>
        /\ outcome.status = "NEEDS_HANDOFF"
        /\ outcome.suggested_specialist \in GcpSpecialistNames

\* the incident context lacks the resource name or the zone
LacksTarget == context.resource_name = None \/ context.zone = None

\* C34: for every specialist (GCP, Linux, Windows), when the incident
\* context lacks a required target identifier (resource name or zone), the
\* specialist makes no oracle call and no adapter call, and what it returns
\* is NEEDS_HANDOFF
C34_MissingTargetShortCircuits ==
    (agent \in Agents /\ LacksTarget) =>
        /\ sends = 0
        /\ attempts = 0
        /\ calls = <<>>
        /\ Returned => outcome.status = "NEEDS_HANDOFF"

\* the tools the loop of an agent dispatches to an adapter
DispatchedTools(a) ==
    CASE a = "linux_agent" -> {"run_linux_command"}
      [] a = "windows_agent" -> {"run_powershell_command"}
      [] OTHER -> {"manage_gke", "manage_gcs"}

\* the arguments of the tool invocations a response requests, in order
RECURSIVE Requested(_, _)
Requested(parts, tools) ==
    IF parts = <<>> THEN <<>>
    ELSE IF Head(parts).kind = "function_call" /\ Head(parts).name \in tools
         THEN <<Head(parts).arg>> \o Requested(Tail(parts), tools)
         ELSE Requested(Tail(parts), tools)

\* what an adapter call was made for: the command of an OS-level loop, the
\* action of the GCP loop
RequestOf(a, call) == IF a = "gcp_agent" THEN call.action ELSE call.arg

\* the step is one iteration of a specialist loop
LoopIteration == pc = "loop" /\ step' = step + 1

\* C35: when one oracle response requests several tool invocations, each of
\* them is dispatched to its adapter exactly once, in order, and recorded in
\* actions_taken before the next message is sent to the oracle, in each of
\* the loops (Linux, Windows, GCP GKE/GCS)
C35_AllRequestedToolsDispatched ==
    [][LoopIteration =>
          LET requested == Requested(response, DispatchedTools(agent))
          IN /\ Len(calls') = Len(calls) + Len(requested)
             /\ Len(actions_taken') = Len(actions_taken) + Len(requested)
             /\ \A k \in 1..Len(requested) :
                   /\ RequestOf(agent, calls'[Len(calls) + k]) = requested[k]
                   /\ actions_taken'[Len(actions_taken) + k][2] = requested[k]]_vars

\* the words that mark a resolution, and the words that negate one
ResolutionMarkers == {"RESOLVED", "fixed", "Fixed", "FIXED"}
Negations == {"not", "NOT", "unresolved", "UNRESOLVED"}

\* the text affirms success: a resolution marker and no negation
Affirms(text) ==
    /\ \E i \in 1..Len(text) : text[i] \in ResolutionMarkers
    /\ \A i \in 1..Len(text) : text[i] \notin Negations

\* C36: a specialist loop marks the incident resolved only for oracle text
\* that contains a resolution marker and no negation; text that negates
\* the resolution never sets the resolution flag
C36_NegatedTextDoesNotResolve ==
    [][(LoopIteration /\ ~is_resolved /\ is_resolved') =>
          \E i \in 1..Len(response) :
             response[i].kind = "text" /\ Affirms(response[i].text)]_vars

\* the adapter call has returned to its caller
AdapterReturned == executor.at = "returned"

\* C37: every adapter call terminates within a bound the adapter enforces:
\* a cloud operation that never reaches DONE and a remote command that
\* never connects or never returns end in a structured result, after at most
\* 3 connection attempts per remote command and at most one automatic
\* privileged re-run
C37_AdapterCallsTerminate ==
    /\ [](/\ executor.attempts_made <= max_retries
          /\ executor.reruns <= 1
          /\ AdapterReturned => executor.status \in AllStatuses)
    /\ <>AdapterReturned

\* the GCE sub-protocol returned RESOLVED on its firewall path: it created a
\* permit rule
ResolvedByFirewall ==
    /\ Returned
    /\ agent = "gcp_agent"
    /\ GcpHandler(context) = "gce"
    /\ outcome.status = "RESOLVED"
    /\ \E j \in 1..Len(outcome.actions_taken) :
          outcome.actions_taken[j][1] = "Created firewall rule:"

\* C38: whenever the GCE sub-protocol returns RESOLVED on its firewall path,
\* each of the ports 22, 80 and 443 was already allowed or its permit rule
\* was created successfully: no rule creation of the invocation failed
C38_ResolvedMeansEveryPortPermitted ==
    ResolvedByFirewall =>
        \A i \in CallsOf("create_firewall_rule") : calls[i].status = "SUCCESS"

\* no two entries of the store carry the same id
IdsDistinct ==
    \A i, j \in 1..Len(memory) : memory[i].id = memory[j].id => i = j

\* C39: every add creates an entry whose id differs from the ids of all
\* entries already in the store, also for two adds within the same second,
\* so that feedback(entry_id, .) updates the one entry it names and no other
C39_EntryIdsAreUnique ==
    /\ [](StoreReady => IdsDistinct)
    /\ [][(last_op'.name = "feedback" /\ last_op' # last_op) =>
             \A i \in 1..Len(memory) :
                memory'[i] # memory[i] => memory[i].id = last_op'.memory_id]_vars

\* two descriptions are the same text up to letter case
SameUpToCase(d, e) == d = e \/ \E c \in CaseClasses : d \in c /\ e \in c

\* the entries the validation step stored for a description, same text up
\* to letter case
StoredFor(memories, d) ==
    {i \in 1..Len(memories) :
        Len(memories[i].symptoms) = 1 /\ SameUpToCase(memories[i].symptoms[1], d)}

\* the step is a call of the tool search_memory
MemorySearched ==
    /\ Len(dispatched') = Len(dispatched) + 1
    /\ dispatched'[Len(dispatched')].tool = "search_memory"

\* C40: after the validation step has stored a validated fix for a
\* description, a memory search for the same description (same text up to
\* letter case) on the same day finds a past incident and its first result
\* is a fix stored that day for that description; a search for a description
\* that was never stored returns no past incident
C40_StoredFixIsRecalled ==
    [][MemorySearched =>
          LET d == last_op'.symptoms[1]
              stored == StoredFor(memory, d)
              today == {i \in stored : (now - memory[i].timestamp) \div Day = 0}
              reply == dispatched'[Len(dispatched')]
          IN /\ last_op'.name = "search"
             /\ today # {} =>
                   /\ reply.status = "FOUND"
                   /\ reply.returned = "Found similar incident"
                   /\ last_op'.results[1].entry \in {memory[i] : i \in today}
             /\ stored = {} =>
                   /\ reply.status = "NONE"
                   /\ reply.returned = "No relevant past incidents found."]_vars

\* a fix stored for "Disk Full" was found by a search for "disk full"
C40_Witness ==
    /\ pc = "orchestrate"
    /\ last_op.name = "search"
    /\ last_op.symptoms = <<"disk full">>
    /\ last_op.results # <<>>
    /\ last_op.results[1].entry.symptoms = <<"Disk Full">>
    /\ dispatched[Len(dispatched)].status = "FOUND"

\* a search for a description that was never stored found nothing in a store
\* that holds a fix
C40_WitnessNeverStored ==
    /\ pc = "orchestrate"
    /\ last_op.name = "search"
    /\ last_op.symptoms = <<"timeout">>
    /\ memory # <<>>
    /\ dispatched[Len(dispatched)].status = "NONE"

====
